---- MODULE Spec2Model ----
(***************************************************************************)
(* Verification model of the marching-cubes terrain engine.                *)
(*                                                                         *)
(* Part I  - the Chunk Manager (src/src/terrain/ChunkManager.ts) together  *)
(*           with the parts of TerrainChunk and of the mesh worker that    *)
(*           its coordination depends on.                                  *)
(*                                                                         *)
(* World positions are integer sample points.  A chunk's scalar field is   *)
(* represented by the sequence of edit calls that modified it since the    *)
(* field was generated (two fields of one chunk instance are equal iff     *)
(* these sequences are equal); geometry is represented by the field it     *)
(* was extracted from.                                                     *)
(***************************************************************************)
EXTENDS Integers, Sequences, FiniteSets, TLC

\* ------------------------------------------------------------------------
\* Bounds of the model
\* ------------------------------------------------------------------------
NumWorkers == 2          \* size of the worker pool
MaxInputs == 3           \* number of setFocus calls, edits and worker errors in a run
TickMs == 50             \* granularity of the clock
LiveInputs == 2          \* the input budget of the liveness check
MaxBrushOps == 3       \* number of operations on the chunk under the brush
MaxPasses == 2         \* number of generateMesh calls on the extractor

\* ------------------------------------------------------------------------
\* Configuration and inputs
\* ------------------------------------------------------------------------
chunkSize == 20
updateThrottleMs == 50
RenderDistances == {1}
FocusPositions == {<<0, 0, 0>>, <<-5, 0, 0>>, <<70, 0, 0>>}
EditPositions == {<<7, 0, 0>>, <<10, 0, 0>>, <<32, 0, 0>>}
BrushSizes == {5}

Workers == 1..NumWorkers
\* no generateMesh message being processed / mesh === null
NoJob == [chunkKey |-> <<>>, scalarField |-> <<>>, position |-> <<>>, inst |-> 0, ticket |-> 0]
NoMesh == [geometry |-> <<-1>>, src |-> 0]

VARIABLES
  chunks,             \* Map<string, TerrainChunk>
  chunkGroup,         \* chunkGroup.children: how often the mesh of a chunk instance is in it
  pendingUpdates,     \* Set<string>, in insertion order
  isUpdating,         \* a throttled flush is scheduled
  sinceLast,          \* performance.now() - lastUpdateTime, saturated at updateThrottleMs
  currentCenter,      \* last focus position
  renderDistance,     \* options.renderDistance
  workerPool,         \* idle workers (a stack)
  chunkQueue,         \* queued jobs
  inProgressChunks,   \* keys marked in progress
  jobs,               \* per worker: the generateMesh message it is processing, or NoJob
  timers,             \* outstanding setTimeout callbacks
  timerLeft,          \* time until the scheduled callback is due
  nextInst,           \* history: number of TerrainChunk objects constructed
  nextTicket,         \* history: number of queue entries pushed
  dispatchLog,        \* history: tickets of the jobs posted to workers, in order
  nFocus,             \* history: number of generateChunksAroundPosition calls
  nEdits,             \* history: number of modifyTerrain calls
  nErrors,            \* history: number of 'error' messages
  last,               \* history: the last handler that ran
  disposed,           \* history: dispose() has been called
  brushField,         \* Part II: the changes of the chunk's scalarField, per grid cell
  dirtyRegion,        \* Part II: TerrainChunk.dirtyRegion, or NoRegion
  isDirty,            \* Part II: TerrainChunk.isDirty
  touched,            \* history: grid cells written since the last mesh application
  brushLast,          \* history: the last operation on the chunk and its result
  nBrush,             \* history: number of operations on the chunk
  tableIndex,         \* Part III: the configuration index looked up, -1 before any
  tableEntry,         \* Part III: the entry read from the Triangle Table
  mcOptions,          \* Part IV: MarchingCubes.options
  vertexCache,        \* Part IV: MarchingCubes.vertexCache, pairs <<key, index>>
  mcField,            \* Part IV: the scalar field and sizes given to generateMesh
  mcCube,             \* Part IV: the cube the loops of generateMesh are at, <<>> outside a call
  positions,          \* Part IV: the vertices pushed by the running call
  normals,            \* Part IV: the normals pushed by the running call
  indices,            \* Part IV: the indices pushed by the running call
  quantized,          \* Part IV: history: the cache key of every vertex pushed in seamless mode
  mcGeometry,         \* Part IV: the geometry the last call returned, with its inputs
  mcPrevious,         \* Part IV: history: the geometry the call before returned
  nPass               \* Part IV: history: number of generateMesh calls

mgrVars == <<chunks, chunkGroup, pendingUpdates, isUpdating, sinceLast, currentCenter,
             renderDistance, workerPool, chunkQueue, inProgressChunks, jobs, timers,
             timerLeft, nextInst, nextTicket, dispatchLog, nFocus, nEdits, nErrors, last,
             disposed>>
brushVars == <<brushField, dirtyRegion, isDirty, touched, brushLast, nBrush>>

tableVars == <<tableIndex, tableEntry>>

mcVars ==
  <<mcOptions, vertexCache, mcField, mcCube, positions, normals, indices, quantized,
    mcGeometry, mcPrevious, nPass>>

vars == <<mgrVars, brushVars, tableVars, mcVars>>

\* the variables of the other parts
notMgr == <<brushVars, tableVars, mcVars>>
notBrush == <<mgrVars, tableVars, mcVars>>
notTable == <<mgrVars, brushVars, mcVars>>
notMc == <<mgrVars, brushVars, tableVars>>

\* ------------------------------------------------------------------------
\* Helpers
\* ------------------------------------------------------------------------
Min(a, b) == IF a <= b THEN a ELSE b
Max(a, b) == IF a >= b THEN a ELSE b

\* the manager's mutable state as one record, threaded through the methods
State ==
  [chunks |-> chunks, chunkGroup |-> chunkGroup, pendingUpdates |-> pendingUpdates,
   workerPool |-> workerPool, chunkQueue |-> chunkQueue,
   inProgressChunks |-> inProgressChunks, jobs |-> jobs, nextInst |-> nextInst,
   nextTicket |-> nextTicket, dispatchLog |-> dispatchLog]

MapSet(m, k, v) == [x \in (DOMAIN m) \cup {k} |-> IF x = k THEN v ELSE m[x]]
MapDelete(m, k) == [x \in (DOMAIN m) \ {k} |-> m[x]]

SeqRemoveAt(q, i) == SubSeq(q, 1, i - 1) \o SubSeq(q, i + 1, Len(q))
SeqContains(q, v) == \E i \in 1..Len(q) : q[i] = v

\* the children of the scene group: children.includes(mesh), add(mesh),
\* remove(mesh) (the first occurrence), and the loop that removes them all
groupIncludes(g, mesh) == mesh \in DOMAIN g

\* mutant: the mesh is added without looking whether it is a child
groupAddAgain(g, mesh) ==
  IF mesh \in DOMAIN g THEN [g EXCEPT ![mesh] = @ + 1] ELSE MapSet(g, mesh, 1)

groupAdd(g, mesh) == IF groupIncludes(g, mesh) THEN g ELSE MapSet(g, mesh, 1)

groupRemove(g, mesh) ==
  IF mesh \notin DOMAIN g THEN g
  ELSE IF g[mesh] > 1 THEN [g EXCEPT ![mesh] = @ - 1]
  ELSE MapDelete(g, mesh)

groupClear(g) == <<>>

\* ------------------------------------------------------------------------
\* TerrainChunk
\* ------------------------------------------------------------------------
\* mutant: the constructor's default, generateMeshImmediately = true
newTerrainChunkMeshed(inst, x, y, z) ==
  [inst |-> inst, chunkPosition |-> <<x, y, z>>, scalarField |-> <<>>,
   isDirty |-> FALSE, mesh |-> [geometry |-> <<>>, src |-> inst]]

\* constructor(options, noiseGenerator, generateMeshImmediately = false)
newTerrainChunk(inst, x, y, z) ==
  [inst |-> inst, chunkPosition |-> <<x, y, z>>, scalarField |-> <<>>,
   isDirty |-> FALSE, mesh |-> NoMesh]

\* twice the bounds, to stay in the integers when chunkSize is odd
calculateChunkBounds2(chunk) ==
  [min |-> [i \in 1..3 |-> 2 * chunk.chunkPosition[i] * chunkSize - chunkSize],
   max |-> [i \in 1..3 |-> 2 * chunk.chunkPosition[i] * chunkSize + chunkSize]]

containsPosition(chunk, worldPos) ==
  LET b == calculateChunkBounds2(chunk)
  IN \A i \in 1..3 : 2 * worldPos[i] >= b.min[i] /\ 2 * worldPos[i] <= b.max[i]

\* sqrt(distSq) <= chunkRadius + brushSize with chunkRadius = sqrt(3 chunkSize^2 / 4),
\* decided without square roots (chunkRadius < chunkSize settles the distant case
\* before the squares grow)
couldBeAffected(chunk, worldPos, brushSize) ==
  LET d == (worldPos[1] - chunk.chunkPosition[1] * chunkSize) * (worldPos[1] - chunk.chunkPosition[1] * chunkSize)
         + (worldPos[2] - chunk.chunkPosition[2] * chunkSize) * (worldPos[2] - chunk.chunkPosition[2] * chunkSize)
         + (worldPos[3] - chunk.chunkPosition[3] * chunkSize) * (worldPos[3] - chunk.chunkPosition[3] * chunkSize)
      L == 4 * d + 4 * brushSize * brushSize - 3 * chunkSize * chunkSize
  IN IF d > (chunkSize + brushSize) * (chunkSize + brushSize) THEN FALSE
     ELSE d <= brushSize * brushSize \/ L <= 0 \/ L * L <= 64 * brushSize * brushSize * d

\* mutant: the brush is applied without the containsPosition test
chunkModifyTerrainAlways(chunk, worldPos, editId) ==
  [chunk |-> [chunk EXCEPT !.scalarField = Append(@, editId), !.isDirty = TRUE],
   modified |-> TRUE]

\* TerrainChunk.modifyTerrain: its result (modified) is containsPosition, because
\* the cell holding the position always lies within the brush
chunkModifyTerrain(chunk, worldPos, editId) ==
  IF ~containsPosition(chunk, worldPos)
  THEN [chunk |-> chunk, modified |-> FALSE]
  ELSE [chunk |-> [chunk EXCEPT !.scalarField = Append(@, editId), !.isDirty = TRUE],
        modified |-> TRUE]

\* mutant: the field as it was generated, without the edits
getScalarFieldGenerated(chunk) == <<>>

\* a copy of the field
getScalarField(chunk) == chunk.scalarField

updateMeshFromData(chunk, data) ==
  [chunk EXCEPT !.mesh = [geometry |-> data.geometry, src |-> data.inst],
                !.isDirty = FALSE]

\* ------------------------------------------------------------------------
\* ChunkManager
\* ------------------------------------------------------------------------
getChunkKey(x, y, z) == <<x, y, z>>

\* mutant: chunkQueue.pop()
queuePop(q) == [item |-> q[Len(q)], rest |-> SubSeq(q, 1, Len(q) - 1)]

\* chunkQueue.shift()
queueShift(q) == [item |-> Head(q), rest |-> Tail(q)]

RECURSIVE processNextChunkInQueue(_)
processNextChunkInQueue(s) ==
  IF Len(s.chunkQueue) = 0 \/ Len(s.workerPool) = 0 THEN s
  ELSE
    LET item == queueShift(s.chunkQueue).item
        s1 == [s EXCEPT !.chunkQueue = queueShift(s.chunkQueue).rest]
    IN IF item.key \notin DOMAIN s1.chunks THEN processNextChunkInQueue(s1)
       ELSE
         LET worker == s1.workerPool[Len(s1.workerPool)]
             chunk == s1.chunks[item.key]
         IN [s1 EXCEPT
               !.workerPool = SubSeq(@, 1, Len(@) - 1),
               !.inProgressChunks = @ \cup {item.key},
               !.jobs[worker] =
                  [chunkKey |-> item.key,
                   scalarField |-> getScalarField(chunk),
                   position |-> <<item.chunkX * chunkSize, item.chunkY * chunkSize,
                                  item.chunkZ * chunkSize>>,
                   inst |-> chunk.inst,
                   ticket |-> item.ticket],
               !.dispatchLog = Append(@, item.ticket)]

queuePush(s, key, x, y, z) ==
  [s EXCEPT !.chunkQueue = Append(@, [key |-> key, chunkX |-> x, chunkY |-> y,
                                      chunkZ |-> z, ticket |-> s.nextTicket]),
            !.nextTicket = @ + 1]

\* mutant: the chunk is queued and the queue is not processed
createChunkQueueOnly(s, x, y, z) ==
  LET chunkKey == getChunkKey(x, y, z)
      s1 == [s EXCEPT !.chunks = MapSet(@, chunkKey, newTerrainChunk(s.nextInst, x, y, z)),
                      !.nextInst = @ + 1]
  IN queuePush(s1, chunkKey, x, y, z)

createChunk(s, x, y, z) ==
  LET chunkKey == getChunkKey(x, y, z)
      s1 == [s EXCEPT !.chunks = MapSet(@, chunkKey, newTerrainChunk(s.nextInst, x, y, z)),
                      !.nextInst = @ + 1]
  IN processNextChunkInQueue(queuePush(s1, chunkKey, x, y, z))

\* index of the first queue entry of the key, 0 if none (findIndex)
queueFindIndex(q, key) ==
  IF \E i \in 1..Len(q) : q[i].key = key
  THEN CHOOSE i \in 1..Len(q) : q[i].key = key /\ \A j \in 1..(i - 1) : q[j].key # key
  ELSE 0

removeChunk(s, chunkKey) ==
  IF chunkKey \notin DOMAIN s.chunks THEN s
  ELSE
    LET chunk == s.chunks[chunkKey]
        queueIndex == queueFindIndex(s.chunkQueue, chunkKey)
    IN [s EXCEPT
          !.chunkGroup = IF chunk.mesh # NoMesh THEN groupRemove(@, chunk.inst) ELSE @,
          !.chunks = MapDelete(@, chunkKey),
          !.pendingUpdates = SelectSeq(@, LAMBDA k : k # chunkKey),
          !.chunkQueue = IF queueIndex # 0 THEN SeqRemoveAt(@, queueIndex) ELSE @]

\* Math.floor(centerPos / chunkSize)
centerChunk(centerPos) == [i \in 1..3 |-> centerPos[i] \div chunkSize]

\* mutant: >= in place of >
tooFarInclusive(x, y, z, rd) == x * x + y * y + z * z >= rd * rd

\* Math.sqrt(x*x + y*y + z*z) > renderDistance, for integer operands
tooFar(x, y, z, rd) == x * x + y * y + z * z > rd * rd

\* the three nested loops, flattened: iteration i visits offset (x, y, z)
RECURSIVE generateLoop(_, _, _, _)
generateLoop(s, c, rd, i) ==
  LET n == 2 * rd + 1
      x == (i \div (n * n)) - rd
      y == ((i \div n) % n) - rd
      z == (i % n) - rd
      chunkKey == getChunkKey(c[1] + x, c[2] + y, c[3] + z)
  IN IF i >= n * n * n THEN [s |-> s, activeChunkKeys |-> {}]
     ELSE IF tooFar(x, y, z, rd) THEN generateLoop(s, c, rd, i + 1)
     ELSE
       LET s1 == IF chunkKey \notin DOMAIN s.chunks
                 THEN createChunk(s, c[1] + x, c[2] + y, c[3] + z)
                 ELSE s
           r == generateLoop(s1, c, rd, i + 1)
       IN [s |-> r.s, activeChunkKeys |-> r.activeChunkKeys \cup {chunkKey}]

RECURSIVE removeAll(_, _)
removeAll(s, keys) ==
  IF keys = {} THEN s
  ELSE LET k == CHOOSE k \in keys : TRUE
       IN removeAll(removeChunk(s, k), keys \ {k})

generateChunksAroundPosition(s, centerPos, rd) ==
  LET r == generateLoop(s, centerChunk(centerPos), rd, 0)
  IN removeAll(r.s, (DOMAIN r.s.chunks) \ r.activeChunkKeys)

\* chunks.values(): a Map iterates in insertion order, i.e. by increasing instance
chunkKeysInOrder(cs) ==
  LET n == Cardinality(DOMAIN cs)
      rank(k) == Cardinality({j \in DOMAIN cs : cs[j].inst < cs[k].inst}) + 1
  IN [i \in 1..n |-> CHOOSE k \in DOMAIN cs : rank(k) = i]

\* pendingUpdates.add(chunkKey)
setAdd(q, k) == IF SeqContains(q, k) THEN q ELSE Append(q, k)

\* the second loop of modifyTerrain over the affected chunks
RECURSIVE modifyAffected(_, _, _, _, _)
modifyAffected(s, affectedChunks, i, position, editId) ==
  IF i > Len(affectedChunks) THEN s
  ELSE
    LET key == affectedChunks[i]
        r == chunkModifyTerrain(s.chunks[key], position, editId)
        s1 == IF r.modified
              THEN [s EXCEPT !.chunks[key] = r.chunk,
                             !.pendingUpdates = setAdd(@, getChunkKey(r.chunk.chunkPosition[1],
                                                                       r.chunk.chunkPosition[2],
                                                                       r.chunk.chunkPosition[3]))]
              ELSE s
    IN modifyAffected(s1, affectedChunks, i + 1, position, editId)

\* modifyTerrain up to (not including) scheduleChunkUpdates
modifyTerrain(s, position, brushSize, editId) ==
  LET affectedChunks == SelectSeq(chunkKeysInOrder(s.chunks),
                                  LAMBDA k : couldBeAffected(s.chunks[k], position, brushSize))
  IN modifyAffected(s, affectedChunks, 1, position, editId)

\* the chunk is queued unless a worker is marked as processing it
skipUpdate(s, chunkKey) == chunkKey \in s.inProgressChunks

\* the loop of updateChunks over pendingUpdates
RECURSIVE updateLoop(_, _, _)
updateLoop(s, pending, i) ==
  IF i > Len(pending) THEN s
  ELSE
    LET chunkKey == pending[i]
        s1 == IF chunkKey \in DOMAIN s.chunks /\ s.chunks[chunkKey].isDirty
                 /\ ~skipUpdate(s, chunkKey)
              THEN processNextChunkInQueue(
                     queuePush(s, chunkKey, chunkKey[1], chunkKey[2], chunkKey[3]))
              ELSE s
    IN updateLoop(s1, pending, i + 1)

\* mutant: the pending set is not cleared
updateChunksKeepPending(s) == updateLoop(s, s.pendingUpdates, 1)

\* updateChunks, for a non-empty pending set (the caller handles lastUpdateTime)
updateChunks(s) ==
  [updateLoop(s, s.pendingUpdates, 1) EXCEPT !.pendingUpdates = <<>>]

\* mutant: return early when the chunk is gone
handleChunkCompleteEarlyReturn(s, data, worker) ==
  IF data.chunkKey \notin DOMAIN s.chunks THEN s
  ELSE
    LET s1 == [s EXCEPT
                 !.chunks[data.chunkKey] = updateMeshFromData(@, data),
                 !.chunkGroup = groupAdd(@, s.chunks[data.chunkKey].inst)]
        s2 == [s1 EXCEPT !.inProgressChunks = @ \ {data.chunkKey},
                         !.workerPool = Append(@, worker)]
    IN processNextChunkInQueue(s2)

\* mutant: the freed worker is not handed the next queued job
handleChunkCompleteNoDispatch(s, data, worker) ==
  LET s1 == IF data.chunkKey \in DOMAIN s.chunks
            THEN [s EXCEPT
                    !.chunks[data.chunkKey] = updateMeshFromData(@, data),
                    !.chunkGroup = groupAdd(@, s.chunks[data.chunkKey].inst)]
            ELSE s
  IN [s1 EXCEPT !.inProgressChunks = @ \ {data.chunkKey},
                !.workerPool = Append(@, worker)]

\* handleWorkerMessage for data.type === 'chunkComplete'
handleChunkComplete(s, data, worker) ==
  LET s1 == IF data.chunkKey \in DOMAIN s.chunks
            THEN [s EXCEPT
                    !.chunks[data.chunkKey] = updateMeshFromData(@, data),
                    !.chunkGroup = groupAdd(@, s.chunks[data.chunkKey].inst)]
            ELSE s
      s2 == [s1 EXCEPT !.inProgressChunks = @ \ {data.chunkKey},
                       !.workerPool = Append(@, worker)]
  IN processNextChunkInQueue(s2)

\* handleWorkerMessage for any other message type: nothing happens
handleOtherMessage(s, data, worker) == s

handleWorkerMessage(s, data, worker) ==
  IF data.type = "chunkComplete" THEN handleChunkComplete(s, data, worker)
  ELSE handleOtherMessage(s, data, worker)

\* ------------------------------------------------------------------------
\* The state machine
\* ------------------------------------------------------------------------
\* the handler's result s becomes the manager's state (s is computed once)
Commit(s) ==
  \E t \in {s} :
    /\ chunks' = t.chunks
    /\ chunkGroup' = t.chunkGroup
    /\ pendingUpdates' = t.pendingUpdates
    /\ workerPool' = t.workerPool
    /\ chunkQueue' = t.chunkQueue
    /\ inProgressChunks' = t.inProgressChunks
    /\ jobs' = t.jobs
    /\ nextInst' = t.nextInst
    /\ nextTicket' = t.nextTicket
    /\ dispatchLog' = t.dispatchLog

\* TerrainChunk.dirtyRegion === null
NoRegion == [min |-> <<>>, max |-> <<>>]

\* Part II: the chunk after construction, its field as generated
BrushInit ==
  /\ brushField = <<>>
  /\ dirtyRegion = NoRegion
  /\ isDirty = FALSE
  /\ touched = {}
  /\ brushLast = [op |-> "init", modified |-> FALSE]
  /\ nBrush = 0

\* Part III: nothing has been looked up
TableInit ==
  /\ tableIndex = -1
  /\ tableEntry = <<>>

\* Part IV: the options and sizes of an extractor before its first call
defaultMcOptions ==
  [resolution |-> 32, size |-> 50, isoLevel |-> 0,
   bounds |-> [minX |-> -1, maxX |-> 1, minY |-> -1, maxY |-> 1,
               minZ |-> -1, maxZ |-> 1],
   seamless |-> TRUE, debugVoxels |-> FALSE, doubleSided |-> TRUE]

\* mutant: the options given are spread over the defaults
mergeOptionsOntoDefaults(base, options) ==
  [k \in DOMAIN base |-> IF k \in DOMAIN options THEN options[k] ELSE defaultMcOptions[k]]

\* { ...base, ...options }
mergeOptions(base, options) ==
  [k \in DOMAIN base |-> IF k \in DOMAIN options THEN options[k] ELSE base[k]]

\* constructor arguments: an iso level of 0, an iso level of 0.75, separate
\* one-sided triangles; densities and iso levels are given in quarters
McConstructorArgs ==
  { [isoLevel |-> 0],
    [isoLevel |-> 3],
    [seamless |-> FALSE, doubleSided |-> FALSE] }

NoField == [sizeX |-> 0, sizeY |-> 0, sizeZ |-> 0, data |-> <<>>]

\* the extractor new MarchingCubes(options) before its first call
newMarchingCubes(options) ==
  [options |-> mergeOptions(defaultMcOptions, options), vertexCache |-> {},
   geometry |-> [scalarField |-> NoField,
                 options |-> mergeOptions(defaultMcOptions, options),
                 positions |-> <<>>, normals |-> <<>>, indices |-> <<>>]]

\* Part IV: new MarchingCubes()
McInit ==
  /\ mcOptions = defaultMcOptions
  /\ vertexCache = {}
  /\ mcField = NoField
  /\ mcCube = <<>>
  /\ positions = <<>>
  /\ normals = <<>>
  /\ indices = <<>>
  /\ quantized = <<>>
  /\ mcGeometry = [scalarField |-> NoField, options |-> defaultMcOptions,
                   positions |-> <<>>, normals |-> <<>>, indices |-> <<>>]
  /\ mcPrevious = mcGeometry
  /\ nPass = 0

Init ==
  /\ BrushInit
  /\ TableInit
  /\ McInit
  /\ chunks = <<>>
  /\ chunkGroup = <<>>
  /\ pendingUpdates = <<>>
  /\ isUpdating = FALSE
  /\ sinceLast = 0
  /\ currentCenter = <<0, 0, 0>>
  /\ renderDistance \in RenderDistances
  /\ workerPool = [i \in 1..NumWorkers |-> i]
  /\ chunkQueue = <<>>
  /\ inProgressChunks = {}
  /\ jobs = [w \in Workers |-> NoJob]
  /\ timers = 0
  /\ timerLeft = 0
  /\ nextInst = 1
  /\ nextTicket = 1
  /\ dispatchLog = <<>>
  /\ nFocus = 0
  /\ nEdits = 0
  /\ nErrors = 0
  /\ last = [op |-> "init", hit |-> FALSE]
  /\ disposed = FALSE

\* setFocus: generateChunksAroundPosition(centerPos)
SetFocus(centerPos) ==
  /\ UNCHANGED notMgr
  /\ nFocus + nEdits + nErrors < MaxInputs
  /\ Commit(generateChunksAroundPosition(State, centerPos, renderDistance))
  /\ currentCenter' = centerPos
  /\ nFocus' = nFocus + 1
  /\ last' = [op |-> "focus", hit |-> FALSE]
  /\ UNCHANGED <<isUpdating, sinceLast, renderDistance, timers, timerLeft, nEdits, nErrors,
                 disposed>>

\* requestEdit: modifyTerrain(position, brushSize, ...) including scheduleChunkUpdates
RequestEdit(position, brushSize) ==
  /\ UNCHANGED notMgr
  /\ nFocus + nEdits + nErrors < MaxInputs
  /\ LET s1 == modifyTerrain(State, position, brushSize, nEdits + 1)
         hit == s1.chunks # chunks
     IN /\ last' = [op |-> "edit", hit |-> hit]
        /\ IF isUpdating \/ Len(s1.pendingUpdates) = 0
           THEN /\ Commit(s1)
                /\ UNCHANGED <<isUpdating, sinceLast, timers, timerLeft>>
           ELSE IF sinceLast >= updateThrottleMs
           THEN /\ Commit(updateChunks(s1))
                /\ sinceLast' = 0
                /\ UNCHANGED <<isUpdating, timers, timerLeft>>
           ELSE /\ Commit(s1)
                /\ isUpdating' = TRUE
                /\ timers' = timers + 1
                /\ timerLeft' = updateThrottleMs - sinceLast
                /\ UNCHANGED sinceLast
  /\ nEdits' = nEdits + 1
  /\ UNCHANGED <<currentCenter, renderDistance, nFocus, nErrors, disposed>>

\* the setTimeout callback of scheduleChunkUpdates
TimerFire ==
  /\ UNCHANGED notMgr
  /\ timers > 0
  /\ timerLeft = 0
  /\ timers' = timers - 1
  /\ isUpdating' = FALSE
  /\ IF Len(pendingUpdates) = 0
     THEN Commit(State) /\ UNCHANGED sinceLast
     ELSE Commit(updateChunks(State)) /\ sinceLast' = 0
  /\ last' = [op |-> "flush", hit |-> Len(pendingUpdates) # 0]
  /\ UNCHANGED <<currentCenter, renderDistance, timerLeft, nFocus, nEdits, nErrors,
                 disposed>>

\* time passes
Tick ==
  /\ UNCHANGED notMgr
  /\ sinceLast < updateThrottleMs \/ timerLeft > 0
  /\ sinceLast' = Min(sinceLast + TickMs, updateThrottleMs)
  /\ timerLeft' = Max(timerLeft - TickMs, 0)
  /\ UNCHANGED <<chunks, chunkGroup, pendingUpdates, isUpdating, currentCenter,
                 renderDistance, workerPool, chunkQueue, inProgressChunks, jobs, timers,
                 nextInst, nextTicket, dispatchLog, nFocus, nEdits, nErrors, last,
                 disposed>>

\* the worker answers its generateMesh message with 'chunkComplete'
WorkerComplete(w) ==
  /\ UNCHANGED notMgr
  /\ jobs[w] # NoJob
  /\ LET data == [type |-> "chunkComplete", chunkKey |-> jobs[w].chunkKey,
                  geometry |-> jobs[w].scalarField, inst |-> jobs[w].inst]
     IN /\ Commit(handleWorkerMessage([State EXCEPT !.jobs[w] = NoJob], data, w))
        /\ last' = [op |-> "complete",
                    hit |-> data.chunkKey \in DOMAIN chunks]
  /\ UNCHANGED <<isUpdating, sinceLast, currentCenter, renderDistance, timers, timerLeft,
                 nFocus, nEdits, nErrors, disposed>>

\* the worker's catch block answers with 'error'
WorkerError(w) ==
  /\ UNCHANGED notMgr
  /\ jobs[w] # NoJob
  /\ nFocus + nEdits + nErrors < MaxInputs
  /\ nErrors' = nErrors + 1
  /\ LET data == [type |-> "error", chunkKey |-> jobs[w].chunkKey]
     IN /\ Commit(handleWorkerMessage([State EXCEPT !.jobs[w] = NoJob], data, w))
        /\ last' = [op |-> "error",
                    hit |-> data.chunkKey \in DOMAIN chunks]
  /\ UNCHANGED <<isUpdating, sinceLast, currentCenter, renderDistance, timers, timerLeft,
                 nFocus, nEdits, disposed>>

Next ==
  \/ \E p \in FocusPositions : SetFocus(p)
  \/ \E p \in EditPositions : \E b \in BrushSizes : RequestEdit(p, b)
  \/ TimerFire
  \/ Tick
  \/ \E w \in Workers : WorkerComplete(w)
  \/ \E w \in Workers : WorkerError(w)

Spec == Init /\ [][Next]_vars

\* dispose(): the workers are terminated (a terminated worker posts no
\* message), pool, queue and chunks are emptied and every child is removed
\* from the group; pendingUpdates, inProgressChunks and a scheduled flush
\* stay as they are
dispose(s) ==
  [s EXCEPT !.workerPool = <<>>,
            !.chunkQueue = <<>>,
            !.chunks = <<>>,
            !.chunkGroup = groupClear(@),
            !.jobs = [w \in Workers |-> NoJob]]

Dispose ==
  /\ UNCHANGED notMgr
  /\ ~disposed
  /\ disposed' = TRUE
  /\ Commit(dispose(State))
  /\ last' = [op |-> "dispose", hit |-> FALSE]
  /\ UNCHANGED <<isUpdating, sinceLast, currentCenter, renderDistance, timers, timerLeft,
                 nFocus, nEdits, nErrors>>

\* the manager with its end of life
DisposeNext == Next \/ Dispose

DisposeSpec == Init /\ [][DisposeNext]_vars

TypeOK ==
  /\ isUpdating \in BOOLEAN
  /\ sinceLast \in 0..updateThrottleMs
  /\ timers \in 0..1
  /\ \A k \in DOMAIN chunks : chunks[k].chunkPosition = k

\* ------------------------------------------------------------------------
\* Properties of the Chunk Manager
\* ------------------------------------------------------------------------
Busy(w) == jobs[w] # NoJob
QueueKeys == {chunkQueue[i].key : i \in 1..Len(chunkQueue)}
PendingKeys == {pendingUpdates[i] : i \in 1..Len(pendingUpdates)}
InFlightKeys == {jobs[w].chunkKey : w \in {v \in Workers : Busy(v)}}

\* C1: a chunk key is bound to at most one busy worker: no two workers process
\* jobs of the same chunk key at the same time.
NoDoubleDispatch ==
  \A w1, w2 \in Workers :
    (w1 # w2 /\ Busy(w1) /\ Busy(w2)) => jobs[w1].chunkKey # jobs[w2].chunkKey

\* the chunk has edits that its mesh does not show
Unmeshed(k) ==
  chunks[k].scalarField # <<>> /\ chunks[k].mesh.geometry # chunks[k].scalarField

\* C2: an edit is never dropped: as long as every worker answers with a result,
\* an active chunk whose edits its mesh does not show is pending, queued or
\* being processed, so that a later job will show them.
EditNeverDropped ==
  nErrors = 0 =>
    \A k \in DOMAIN chunks :
      Unmeshed(k) => k \in PendingKeys \/ k \in QueueKeys \/ k \in InFlightKeys

\* C3: the job queue holds at most one entry per chunk key.
QueueKeysUnique ==
  \A i, j \in 1..Len(chunkQueue) : i # j => chunkQueue[i].key # chunkQueue[j].key

\* C4: after a worker reported an error its slot is free again (idle in the pool
\* or already processing the next job), and every in-progress mark belongs to a
\* job that is being processed.
ErrorFreesSlot ==
  last.op = "error" =>
    /\ \A w \in Workers : Busy(w) \/ SeqContains(workerPool, w)
    /\ inProgressChunks \subseteq InFlightKeys

\* the chunk-grid cell whose half-open extent [c * chunkSize, (c + 1) * chunkSize)
\* holds the position
FocusCell(p) ==
  [i \in 1..3 |-> CHOOSE c \in -4..4 : c * chunkSize <= p[i] /\ p[i] < (c + 1) * chunkSize]

\* the cells at Euclidean distance <= rd of cell c
CellsWithin(c, rd) ==
  {<<c[1] + o[1], c[2] + o[2], c[3] + o[3]>> :
     o \in {v \in (-rd..rd) \X (-rd..rd) \X (-rd..rd) :
              v[1] * v[1] + v[2] * v[2] + v[3] * v[3] <= rd * rd}}

\* C5: after setFocus the active chunk keys are exactly the cells within
\* renderDistance of the focus cell; for renderDistance 1 at the origin these are
\* the origin cell and its six face neighbours.
FocusActivatesExactlyTheBall ==
  nFocus > 0 =>
    /\ DOMAIN chunks = CellsWithin(FocusCell(currentCenter), renderDistance)
    /\ (renderDistance = 1 /\ currentCenter = <<0, 0, 0>>) =>
          /\ Cardinality(DOMAIN chunks) = 7
          /\ DOMAIN chunks = {<<0, 0, 0>>, <<1, 0, 0>>, <<-1, 0, 0>>, <<0, 1, 0>>,
                              <<0, -1, 0>>, <<0, 0, 1>>, <<0, 0, -1>>}

\* witness of C5: the focus moved from the origin far away, and a job of a chunk
\* of the origin's neighbourhood is still being processed
FocusMovedAway ==
  /\ last.op = "focus"
  /\ nFocus >= 2
  /\ currentCenter = <<70, 0, 0>>
  /\ Cardinality(DOMAIN chunks) = 7
  /\ \E w \in Workers : Busy(w) /\ jobs[w].chunkKey \in CellsWithin(<<0, 0, 0>>, 1)

\* C6: the key of an evicted chunk is in no queue entry and not pending: every
\* queued or pending key is the key of an active chunk.
EvictionLeavesNoTrace ==
  /\ QueueKeys \subseteq DOMAIN chunks
  /\ PendingKeys \subseteq DOMAIN chunks

\* the first queue entry whose chunk is active, 0 if none
FirstLive ==
  LET live == {i \in 1..Len(chunkQueue) : chunkQueue[i].key \in DOMAIN chunks}
  IN IF live = {} THEN 0 ELSE CHOOSE i \in live : \A j \in live : i <= j

\* C7: a completion for a key that is not active changes no chunk and not the
\* scene group, clears the key's in-progress mark, frees the worker and hands the
\* first queued job of an active chunk (if any) to a worker.
StaleCompletionDiscarded ==
  [][\A w \in Workers :
       (WorkerComplete(w) /\ jobs[w].chunkKey \notin DOMAIN chunks) =>
         /\ chunks' = chunks
         /\ chunkGroup' = chunkGroup
         /\ jobs[w].chunkKey \notin inProgressChunks'
         /\ SeqContains(workerPool', w) \/ jobs'[w] # NoJob
         /\ IF FirstLive = 0
            THEN chunkQueue' = <<>> /\ dispatchLog' = dispatchLog
                 /\ SeqContains(workerPool', w)
            ELSE /\ dispatchLog' = Append(dispatchLog, chunkQueue[FirstLive].ticket)
                 /\ chunkQueue' = SubSeq(chunkQueue, FirstLive + 1, Len(chunkQueue))
                 /\ \E v \in Workers : jobs'[v].ticket = chunkQueue[FirstLive].ticket]_vars

\* witness of C7: such a completion was handled and the worker took the next job
StaleCompletionHandled ==
  /\ last.op = "complete"
  /\ ~last.hit
  /\ \A w \in Workers : Busy(w) /\ jobs[w].chunkKey \in DOMAIN chunks

\* C8: jobs are dispatched in the order they were queued: the tickets of the
\* dispatched jobs increase, and no queued job is older than a dispatched one.
FifoDispatch ==
  /\ \A i \in 1..(Len(dispatchLog) - 1) : dispatchLog[i] < dispatchLog[i + 1]
  /\ \A i \in 1..Len(chunkQueue) : \A j \in 1..Len(dispatchLog) :
        chunkQueue[i].ticket > dispatchLog[j]

\* witness of C8: several dispatches, one of them past a cancelled entry, with
\* jobs still queued
FifoWitness ==
  /\ Len(dispatchLog) >= 4
  /\ Len(chunkQueue) >= 2
  /\ \E i \in 1..(Len(dispatchLog) - 1) : dispatchLog[i + 1] > dispatchLog[i] + 1

\* C9: the snapshot of a job is the chunk's field at dispatch, a job in flight
\* keeps its snapshot, and a chunk's field changes only by an edit, which
\* extends it.
SnapshotAtDispatch ==
  [][/\ \A w \in Workers :
          (jobs'[w] # NoJob /\ jobs'[w] # jobs[w]) =>
            LET k == jobs'[w].chunkKey
                c == IF k \in DOMAIN chunks' /\ chunks'[k].inst = jobs'[w].inst
                     THEN chunks'[k] ELSE chunks[k]
            IN jobs'[w].scalarField = c.scalarField /\ jobs'[w].inst = c.inst
     /\ \A w \in Workers :
          (Busy(w) /\ jobs'[w] # NoJob /\ jobs'[w].ticket = jobs[w].ticket) =>
            jobs'[w] = jobs[w]
     /\ \A k \in (DOMAIN chunks) \cap (DOMAIN chunks') :
          (chunks'[k].inst = chunks[k].inst
             /\ chunks'[k].scalarField # chunks[k].scalarField) =>
            /\ last'.op = "edit"
            /\ chunks'[k].scalarField = Append(chunks[k].scalarField, nEdits')]_vars

\* witness of C9: a job in flight carries an edit, and a later entry of the same
\* chunk (pushed by the flush of that edit) is still queued: the edit was
\* applied after the job in flight had been queued
SnapshotHasLateEdit ==
  \E w \in Workers :
    /\ Busy(w)
    /\ jobs[w].scalarField # <<>>
    /\ jobs[w].chunkKey \in QueueKeys
    /\ jobs[w].chunkKey \in DOMAIN chunks
    /\ chunks[jobs[w].chunkKey].scalarField = jobs[w].scalarField

\* C10: a chunk is created without a mesh, and the mesh of a chunk changes only
\* in the step that handles the completion of a job of its key.
MeshChangesOnlyOnCompletion ==
  [][\A k \in DOMAIN chunks' :
       IF k \in DOMAIN chunks /\ chunks[k].inst = chunks'[k].inst
       THEN chunks'[k].mesh # chunks[k].mesh =>
              /\ last'.op = "complete"
              /\ \E w \in Workers : WorkerComplete(w) /\ jobs[w].chunkKey = k
       ELSE chunks'[k].mesh = NoMesh]_vars

\* witness of C10: after an edit, a completion has given a chunk a mesh that
\* shows the edit, while another chunk has no mesh yet
MeshReplaced ==
  /\ last.op = "complete"
  /\ last.hit
  /\ nEdits >= 1
  /\ \E k \in DOMAIN chunks :
        chunks[k].mesh # NoMesh /\ chunks[k].mesh.geometry # <<>>
  /\ \E k \in DOMAIN chunks : chunks[k].mesh = NoMesh

\* ------------------------------------------------------------------------
\* Liveness of the Chunk Manager
\* ------------------------------------------------------------------------
\* The event loop runs a due setTimeout callback, time passes, and (the
\* assumption of the claim) a worker that was handed a job posts its
\* 'chunkComplete' answer unless it answered with 'error'.
Fairness ==
  /\ WF_vars(TimerFire)
  /\ WF_vars(Tick)
  /\ \A w \in Workers : WF_vars(WorkerComplete(w))

\* the steps of Next within the smaller input budget of the liveness check
LiveNext == Next /\ nFocus' + nEdits' + nErrors' <= LiveInputs

LiveSpec == Init /\ [][LiveNext]_vars /\ Fairness

\* no job is queued, none is in flight and every active chunk has a mesh
Quiescent ==
  /\ chunkQueue = <<>>
  /\ inProgressChunks = {}
  /\ \A k \in DOMAIN chunks : chunks[k].mesh # NoMesh

\* C11: when every busy worker eventually posts its completion (no worker
\* answers with an error), then after the last setFocus/requestEdit call the
\* queue and the in-flight set become empty and stay empty, and every chunk
\* that is still active (was never evicted) has a mesh.
EventuallyQuiescent == <>[](nErrors > 0 \/ Quiescent)

\* witness of C11: the manager has come to rest after an edit: every job is
\* done, every chunk has a mesh, and a mesh shows the edit
CameToRest ==
  /\ Quiescent
  /\ nErrors = 0
  /\ nFocus >= 1
  /\ nEdits >= 1
  /\ \A w \in Workers : ~Busy(w)
  /\ Cardinality(DOMAIN chunks) = 7
  /\ \E k \in DOMAIN chunks : chunks[k].mesh.geometry # <<>>

\* ------------------------------------------------------------------------
\* Edits across chunk seams
\* ------------------------------------------------------------------------
\* the sphere of the edit reaches the chunk's axis-aligned bounds: the squared
\* distance of the position to the box (doubled coordinates) is at most the
\* squared radius
SphereReachesBounds(chunk, worldPos, brushSize) ==
  LET b == calculateChunkBounds2(chunk)
      gap(i) == Max(Max(b.min[i] - 2 * worldPos[i], 2 * worldPos[i] - b.max[i]), 0)
  IN gap(1) * gap(1) + gap(2) * gap(2) + gap(3) * gap(3)
       <= 4 * brushSize * brushSize

\* C12: requestEdit applies the brush to every active chunk whose bounds the
\* edit sphere reaches, also to a chunk that does not contain the edit
\* position: the field of each such chunk takes the edit and the chunk is
\* marked dirty.
EditReachesSeamChunks ==
  [][\A p \in EditPositions : \A b \in BrushSizes :
       RequestEdit(p, b) =>
         \A k \in DOMAIN chunks :
           SphereReachesBounds(chunks[k], p, b) =>
             /\ chunks'[k].scalarField = Append(chunks[k].scalarField, nEdits')
             /\ chunks'[k].isDirty]_vars

\* C15: an edit at a position outside the bounds of every active chunk is a
\* no-op: no chunk changes (field, dirty flag), no chunk becomes pending, no
\* job is queued or dispatched and no error is raised.
OutsideEditIsNoOp ==
  [][\A p \in EditPositions : \A b \in BrushSizes :
       (RequestEdit(p, b) /\ \A k \in DOMAIN chunks : ~containsPosition(chunks[k], p)) =>
         /\ chunks' = chunks
         /\ pendingUpdates' = pendingUpdates
         /\ chunkQueue' = chunkQueue
         /\ nextTicket' = nextTicket
         /\ jobs' = jobs
         /\ inProgressChunks' = inProgressChunks
         /\ nErrors' = nErrors
         /\ ~last'.hit]_vars

\* witness of C15: with the chunks around the origin active and an earlier edit
\* still pending, an edit was made at a position that no chunk contains (the
\* broad phase selects chunk (1,0,0) for it)
OutsideEditMade ==
  /\ last.op = "edit"
  /\ ~last.hit
  /\ pendingUpdates # <<>>
  /\ <<1, 0, 0>> \in DOMAIN chunks
  /\ <<-1, 0, 0>> \in DOMAIN chunks
  /\ couldBeAffected(chunks[<<1, 0, 0>>], <<32, 0, 0>>, 5)

\* ========================================================================
\* Part II - TerrainChunk.modifyTerrain on the grid of one chunk
\* (src/src/terrain/TerrainChunk.ts)
\*
\* The density of a grid cell is represented by the sequence of the brush
\* influences added to its generated value.  An influence
\* strength * (1 - min(1, sqrt(distSq) / radius))^2 is kept as the record of
\* its operands, so that two influences are equal iff the numbers are.
\* ========================================================================

\* ------------------------------------------------------------------------
\* IEEE 754 double arithmetic of worldToLocalPosition
\* ------------------------------------------------------------------------
\* A positive double is [bits, exp]: the 53 significant bits, most significant
\* first (bits[1] = 1), and the exponent: its value is 0.b1 b2 ... b53 * 2^exp.
Bits == Seq({0, 1})

\* the binary digits of a natural number, most significant first
toBits[c \in Nat] == IF c = 0 THEN <<>> ELSE Append(toBits[c \div 2], c % 2)

\* the natural number of a bit sequence
fromBits[s \in Bits] ==
  IF s = <<>> THEN 0 ELSE 2 * fromBits[SubSeq(s, 1, Len(s) - 1)] + s[Len(s)]

\* s + 1: one bit longer when every bit of s is set
incBits[s \in Bits] ==
  IF s = <<>> THEN <<1>>
  ELSE IF s[Len(s)] = 0 THEN Append(SubSeq(s, 1, Len(s) - 1), 1)
  ELSE Append(incBits[SubSeq(s, 1, Len(s) - 1)], 0)

\* round to nearest, ties to even: s holds at least 53 bits of the exact value,
\* sticky tells whether the exact value has set bits beyond s
roundNearestEven(s, sticky, exp) ==
  LET keep == SubSeq(s, 1, 53)
      guard == IF Len(s) > 53 THEN s[54] ELSE 0
      rest == sticky \/ \E i \in 55..Len(s) : s[i] = 1
      r == IF guard = 1 /\ (rest \/ keep[53] = 1) THEN incBits[keep] ELSE keep
  IN [bits |-> SubSeq(r, 1, 53), exp |-> IF Len(r) > 53 THEN exp + 1 ELSE exp]

\* binary long division of the remainder r by b: the first n significant bits
\* of the quotient, the number z of zero bits before them, the last remainder
divBits[r \in Nat, b \in Nat, acc \in Bits, n \in Nat, z \in Nat] ==
  IF Len(acc) = n THEN [bits |-> acc, rem |-> r, zeros |-> z]
  ELSE IF 2 * r >= b THEN divBits[2 * r - b, b, Append(acc, 1), n, z]
  ELSE IF acc = <<>> THEN divBits[2 * r, b, acc, n, z + 1]
  ELSE divBits[2 * r, b, Append(acc, 0), n, z]

\* the double a / b for integers 0 < a < b
doubleDiv(a, b) ==
  LET q == divBits[a, b, <<>>, 54, 0]
  IN roundNearestEven(q.bits, q.rem # 0, 0 - q.zeros)

\* the bits of s * n + carry
mulBits[s \in Bits, n \in Nat, carry \in Nat] ==
  IF s = <<>> THEN toBits[carry]
  ELSE Append(mulBits[SubSeq(s, 1, Len(s) - 1), n, (s[Len(s)] * n + carry) \div 2],
              (s[Len(s)] * n + carry) % 2)

\* the double d * n for an integer n >= 1
doubleMulInt(d, n) ==
  LET p == mulBits[d.bits, n, 0]
  IN roundNearestEven(p, FALSE, d.exp + Len(p) - 53)

\* Math.floor of a double
doubleFloor(d) == IF d.exp <= 0 THEN 0 ELSE fromBits[SubSeq(d.bits, 1, d.exp)]

\* Math.floor(((p - min) / (max - min)) * (resolution - 1)) for integers
\* 0 <= a = p - min <= b = max - min and n = resolution - 1
floorScaled(a, b, n) ==
  IF a = 0 \/ n = 0 THEN 0
  ELSE IF a = b THEN n
  ELSE doubleFloor(doubleMulInt(doubleDiv(a, b), n))

\* ------------------------------------------------------------------------
\* The chunk and the brush inputs
\* ------------------------------------------------------------------------
\* TerrainChunkOptions of the chunk: the grid cells lie on the integer world
\* coordinates -11..11 of each axis
BrushChunk == [resolution |-> 23, size |-> 22, chunkPosition |-> <<0, 0, 0>>]
BrushPositions == {<<4, 0, 0>>, <<-11, -11, -11>>, <<11, 11, 11>>, <<12, 0, 0>>}
BrushRadii == {1, 2}
BrushStrengths == {1}

\* calculateChunkBounds, for an even size
gridBounds(opt) ==
  [min |-> [i \in 1..3 |-> opt.chunkPosition[i] * opt.size - opt.size \div 2],
   max |-> [i \in 1..3 |-> opt.chunkPosition[i] * opt.size + opt.size \div 2]]

gridContainsPosition(opt, worldPos) ==
  LET b == gridBounds(opt)
  IN \A i \in 1..3 : worldPos[i] >= b.min[i] /\ worldPos[i] <= b.max[i]

worldToLocalPosition(opt, worldPos) ==
  LET b == gridBounds(opt)
  IN <<floorScaled(worldPos[1] - b.min[1], b.max[1] - b.min[1], opt.resolution - 1),
       floorScaled(worldPos[2] - b.min[2], b.max[2] - b.min[2], opt.resolution - 1),
       floorScaled(worldPos[3] - b.min[3], b.max[3] - b.min[3], opt.resolution - 1)>>

\* brushRadiusGrid = brushSize / minCellSize with cellSize = size / (resolution - 1),
\* as the fraction num / den
brushRadiusGrid(opt, brushSize) ==
  [num |-> brushSize * (opt.resolution - 1), den |-> opt.size]

\* Math.ceil of a positive fraction
ceilFraction(f) == (f.num + f.den - 1) \div f.den

\* dx * dx + dy * dy + dz * dz
distSquared(x, c) ==
  (x[1] - c[1]) * (x[1] - c[1]) + (x[2] - c[2]) * (x[2] - c[2])
    + (x[3] - c[3]) * (x[3] - c[3])

\* the box minGrid..maxGrid of an edit
gridBox(opt, localPos, radiusCeil) ==
  [min |-> [i \in 1..3 |-> Max(0, localPos[i] - radiusCeil)],
   max |-> [i \in 1..3 |-> Min(opt.resolution - 1, localPos[i] + radiusCeil)]]

boxCells(box) ==
  (box.min[1]..box.max[1]) \X (box.min[2]..box.max[2]) \X (box.min[3]..box.max[3])

\* mutant: the region of the last edit replaces the earlier one
replaceDirtyRegion(region, box) == box

\* lines 235-247: the dirty region is created, or expanded to include the box
expandDirtyRegion(region, box) ==
  IF region = NoRegion THEN box
  ELSE [min |-> [i \in 1..3 |-> Min(region.min[i], box.min[i])],
        max |-> [i \in 1..3 |-> Max(region.max[i], box.max[i])]]

\* brushStrength * falloff * falloff with falloff = 1 - min(1, distance / radius),
\* subtracted from the density when adding terrain, added when removing
influence(strength, isAdding, distSq, radius) ==
  [sign |-> IF isAdding THEN -1 ELSE 1, strength |-> strength, distSq |-> distSq,
   radius |-> radius]

\* the changes of a cell so far
cellChanges(field, x) == IF x \in DOMAIN field THEN field[x] ELSE <<>>

\* TerrainChunk.modifyTerrain on the chunk c = [field, dirtyRegion, isDirty]
brushModifyTerrain(c, opt, worldPos, brushSize, brushStrength, isAdding) ==
  IF ~gridContainsPosition(opt, worldPos)
  THEN [chunk |-> c, modified |-> FALSE, written |-> {}]
  ELSE
    LET localPos == worldToLocalPosition(opt, worldPos)
        radius == brushRadiusGrid(opt, brushSize)
        box == gridBox(opt, localPos, ceilFraction(radius))
        \* the cells not skipped by distSquared > brushRadiusGridSquared
        written == {x \in boxCells(box) :
                      distSquared(x, localPos) * radius.den * radius.den
                        <= radius.num * radius.num}
        \* the cells whose influence is not zero (falloff > 0)
        changed == {x \in written :
                      distSquared(x, localPos) * radius.den * radius.den
                        < radius.num * radius.num}
        field == [x \in (DOMAIN c.field) \cup changed |->
                    IF x \in changed
                    THEN Append(cellChanges(c.field, x),
                                influence(brushStrength, isAdding,
                                          distSquared(x, localPos), radius))
                    ELSE c.field[x]]
    IN [chunk |-> [field |-> field,
                   dirtyRegion |-> expandDirtyRegion(c.dirtyRegion, box),
                   isDirty |-> (written # {}) \/ c.isDirty],
        modified |-> written # {},
        written |-> written]

\* generateMesh / updateMeshFromData: the dirty flag and region are reset
resetDirty(c) == [c EXCEPT !.isDirty = FALSE, !.dirtyRegion = NoRegion]

\* ------------------------------------------------------------------------
\* The state machine of the chunk under the brush
\* ------------------------------------------------------------------------
BrushState == [field |-> brushField, dirtyRegion |-> dirtyRegion, isDirty |-> isDirty]

\* chunk.modifyTerrain(worldPos, brushSize, brushStrength, isAdding)
ApplyBrush(worldPos, brushSize, brushStrength, isAdding) ==
  /\ nBrush < MaxBrushOps
  /\ \E r \in {brushModifyTerrain(BrushState, BrushChunk, worldPos, brushSize,
                                  brushStrength, isAdding)} :
       /\ brushField' = r.chunk.field
       /\ dirtyRegion' = r.chunk.dirtyRegion
       /\ isDirty' = r.chunk.isDirty
       /\ touched' = touched \cup r.written
       /\ brushLast' = [op |-> "brush", modified |-> r.modified]
  /\ nBrush' = nBrush + 1
  /\ UNCHANGED notBrush

\* chunk.generateMesh(): the chunk remeshes itself
GenerateMesh ==
  /\ nBrush < MaxBrushOps
  /\ \E c \in {resetDirty(BrushState)} :
       /\ dirtyRegion' = c.dirtyRegion
       /\ isDirty' = c.isDirty
  /\ touched' = {}
  /\ brushLast' = [op |-> "generateMesh", modified |-> FALSE]
  /\ nBrush' = nBrush + 1
  /\ UNCHANGED <<brushField, notBrush>>

\* chunk.updateMeshFromData(...): the result of a worker is applied
UpdateMeshFromData ==
  /\ nBrush < MaxBrushOps
  /\ \E c \in {resetDirty(BrushState)} :
       /\ dirtyRegion' = c.dirtyRegion
       /\ isDirty' = c.isDirty
  /\ touched' = {}
  /\ brushLast' = [op |-> "updateMeshFromData", modified |-> FALSE]
  /\ nBrush' = nBrush + 1
  /\ UNCHANGED <<brushField, notBrush>>

BrushNext ==
  \/ \E p \in BrushPositions : \E r \in BrushRadii : \E s \in BrushStrengths :
       \E a \in BOOLEAN : ApplyBrush(p, r, s, a)
  \/ GenerateMesh
  \/ UpdateMeshFromData

BrushSpec == Init /\ [][BrushNext]_vars

\* ------------------------------------------------------------------------
\* Properties of the brush
\* ------------------------------------------------------------------------
\* the grid cell whose centre is exactly the world position, <<>> if there is none
exactCell(opt, worldPos) ==
  LET b == gridBounds(opt)
      n == opt.resolution - 1
  IN IF gridContainsPosition(opt, worldPos)
        /\ \A i \in 1..3 : ((worldPos[i] - b.min[i]) * n) % opt.size = 0
     THEN <<((worldPos[1] - b.min[1]) * n) \div opt.size,
            ((worldPos[2] - b.min[2]) * n) \div opt.size,
            ((worldPos[3] - b.min[3]) * n) \div opt.size>>
     ELSE <<>>

\* C13: a brush of strength S at a position on a grid cell changes that cell by
\* exactly S (minus S when adding, plus S when removing), every other cell
\* nearer than the radius by S * falloff^2 with falloff = 1 - distance / radius
\* measured from that cell, and no cell farther than the radius.
BrushCentredOnGridCell ==
  [][\A p \in BrushPositions : \A r \in BrushRadii : \A st \in BrushStrengths :
       \A a \in BOOLEAN :
         (ApplyBrush(p, r, st, a) /\ exactCell(BrushChunk, p) # <<>>) =>
           LET c == exactCell(BrushChunk, p)
               radius == brushRadiusGrid(BrushChunk, r)
               near == boxCells(gridBox(BrushChunk, c, ceilFraction(radius)))
               expected(x) ==
                 IF distSquared(x, c) * radius.den * radius.den
                      < radius.num * radius.num
                 THEN <<[sign |-> IF a THEN -1 ELSE 1, strength |-> st,
                         distSq |-> distSquared(x, c), radius |-> radius]>>
                 ELSE <<>>
           IN \A x \in (DOMAIN brushField) \cup (DOMAIN brushField') \cup near :
                cellChanges(brushField', x)
                  = cellChanges(brushField, x) \o expected(x)]_vars

TRIANGLE_TABLE_DEMO ==
  <<<<-1>>,
    <<0, 8, 3, -1>>,
    <<0, 1, 9, -1>>,
    <<1, 8, 3, 9, 8, 1, -1>>,
    <<1, 2, 10, -1>>,
    <<0, 8, 3, 1, 2, 10, -1>>,
    <<9, 2, 10, 0, 2, 9, -1>>,
    <<2, 8, 3, 2, 10, 8, 10, 9, 8, -1>>,
    <<3, 11, 2, -1>>,
    <<0, 11, 2, 8, 11, 0, -1>>,
    <<1, 9, 0, 2, 3, 11, -1>>,
    <<1, 11, 2, 1, 9, 11, 9, 8, 11, -1>>,
    <<3, 10, 1, 11, 10, 3, -1>>,
    <<0, 10, 1, 0, 8, 10, 8, 11, 10, -1>>,
    <<3, 9, 0, 3, 11, 9, 11, 10, 9, -1>>,
    <<9, 8, 10, 10, 8, 11, -1>>>>
    \o [i \in 1..240 |-> <<-1>>]

\* the 256 entries, entry c at index c + 1
TRIANGLE_TABLE ==
  <<<<-1>>,
    <<0, 8, 3, -1>>,
    <<0, 1, 9, -1>>,
    <<1, 8, 3, 9, 8, 1, -1>>,
    <<1, 2, 10, -1>>,
    <<0, 8, 3, 1, 2, 10, -1>>,
    <<9, 2, 10, 0, 2, 9, -1>>,
    <<2, 8, 3, 2, 10, 8, 10, 9, 8, -1>>,
    <<3, 11, 2, -1>>,
    <<0, 11, 2, 8, 11, 0, -1>>,
    <<1, 9, 0, 2, 3, 11, -1>>,
    <<1, 11, 2, 1, 9, 11, 9, 8, 11, -1>>,
    <<3, 10, 1, 11, 10, 3, -1>>,
    <<0, 10, 1, 0, 8, 10, 8, 11, 10, -1>>,
    <<3, 9, 0, 3, 11, 9, 11, 10, 9, -1>>,
    <<9, 8, 10, 10, 8, 11, -1>>,
    <<4, 7, 8, -1>>,
    <<4, 3, 0, 7, 3, 4, -1>>,
    <<0, 1, 9, 8, 4, 7, -1>>,
    <<4, 1, 9, 4, 7, 1, 7, 3, 1, -1>>,
    <<1, 2, 10, 8, 4, 7, -1>>,
    <<3, 4, 7, 3, 0, 4, 1, 2, 10, -1>>,
    <<9, 2, 10, 9, 0, 2, 8, 4, 7, -1>>,
    <<2, 10, 9, 2, 9, 7, 2, 7, 3, 7, 9, 4, -1>>,
    <<8, 4, 7, 3, 11, 2, -1>>,
    <<11, 4, 7, 11, 2, 4, 2, 0, 4, -1>>,
    <<9, 0, 1, 8, 4, 7, 2, 3, 11, -1>>,
    <<4, 7, 11, 9, 4, 11, 9, 11, 2, 9, 2, 1, -1>>,
    <<3, 10, 1, 3, 11, 10, 7, 8, 4, -1>>,
    <<1, 11, 10, 1, 4, 11, 1, 0, 4, 7, 11, 4, -1>>,
    <<4, 7, 8, 9, 0, 11, 9, 11, 10, 11, 0, 3, -1>>,
    <<4, 7, 11, 4, 11, 9, 9, 11, 10, -1>>,
    <<9, 5, 4, -1>>,
    <<9, 5, 4, 0, 8, 3, -1>>,
    <<0, 5, 4, 1, 5, 0, -1>>,
    <<8, 5, 4, 8, 3, 5, 3, 1, 5, -1>>,
    <<1, 2, 10, 9, 5, 4, -1>>,
    <<3, 0, 8, 1, 2, 10, 4, 9, 5, -1>>,
    <<5, 2, 10, 5, 4, 2, 4, 0, 2, -1>>,
    <<2, 10, 5, 3, 2, 5, 3, 5, 4, 3, 4, 8, -1>>,
    <<9, 5, 4, 2, 3, 11, -1>>,
    <<0, 11, 2, 0, 8, 11, 4, 9, 5, -1>>,
    <<0, 5, 4, 0, 1, 5, 2, 3, 11, -1>>,
    <<2, 1, 5, 2, 5, 8, 2, 8, 11, 4, 8, 5, -1>>,
    <<10, 3, 11, 10, 1, 3, 9, 5, 4, -1>>,
    <<4, 9, 5, 0, 8, 1, 8, 10, 1, 8, 11, 10, -1>>,
    <<5, 4, 0, 5, 0, 11, 5, 11, 10, 11, 0, 3, -1>>,
    <<5, 4, 8, 5, 8, 10, 10, 8, 11, -1>>,
    <<9, 7, 8, 5, 7, 9, -1>>,
    <<9, 3, 0, 9, 5, 3, 5, 7, 3, -1>>,
    <<0, 7, 8, 0, 1, 7, 1, 5, 7, -1>>,
    <<1, 5, 3, 3, 5, 7, -1>>,
    <<9, 7, 8, 9, 5, 7, 10, 1, 2, -1>>,
    <<10, 1, 2, 9, 5, 0, 5, 3, 0, 5, 7, 3, -1>>,
    <<8, 0, 2, 8, 2, 5, 8, 5, 7, 10, 5, 2, -1>>,
    <<2, 10, 5, 2, 5, 3, 3, 5, 7, -1>>,
    <<7, 9, 5, 7, 8, 9, 3, 11, 2, -1>>,
    <<9, 5, 7, 9, 7, 2, 9, 2, 0, 2, 7, 11, -1>>,
    <<2, 3, 11, 0, 1, 8, 1, 7, 8, 1, 5, 7, -1>>,
    <<11, 2, 1, 11, 1, 7, 7, 1, 5, -1>>,
    <<9, 5, 8, 8, 5, 7, 10, 1, 3, 10, 3, 11, -1>>,
    <<5, 7, 0, 5, 0, 9, 7, 11, 0, 1, 0, 10, 11, 10, 0, -1>>,
    <<11, 10, 0, 11, 0, 3, 10, 5, 0, 8, 0, 7, 5, 7, 0, -1>>,
    <<11, 10, 5, 7, 11, 5, -1>>,
    <<10, 6, 5, -1>>,
    <<0, 8, 3, 5, 10, 6, -1>>,
    <<9, 0, 1, 5, 10, 6, -1>>,
    <<1, 8, 3, 1, 9, 8, 5, 10, 6, -1>>,
    <<1, 6, 5, 2, 6, 1, -1>>,
    <<1, 6, 5, 1, 2, 6, 3, 0, 8, -1>>,
    <<9, 6, 5, 9, 0, 6, 0, 2, 6, -1>>,
    <<5, 9, 8, 5, 8, 2, 5, 2, 6, 3, 2, 8, -1>>,
    <<2, 3, 11, 10, 6, 5, -1>>,
    <<11, 0, 8, 11, 2, 0, 10, 6, 5, -1>>,
    <<0, 1, 9, 2, 3, 11, 5, 10, 6, -1>>,
    <<5, 10, 6, 1, 9, 2, 9, 11, 2, 9, 8, 11, -1>>,
    <<6, 3, 11, 6, 5, 3, 5, 1, 3, -1>>,
    <<0, 8, 11, 0, 11, 5, 0, 5, 1, 5, 11, 6, -1>>,
    <<3, 11, 6, 0, 3, 6, 0, 6, 5, 0, 5, 9, -1>>,
    <<6, 5, 9, 6, 9, 11, 11, 9, 8, -1>>,
    <<5, 10, 6, 4, 7, 8, -1>>,
    <<4, 3, 0, 4, 7, 3, 6, 5, 10, -1>>,
    <<1, 9, 0, 5, 10, 6, 8, 4, 7, -1>>,
    <<10, 6, 5, 1, 9, 7, 1, 7, 3, 7, 9, 4, -1>>,
    <<6, 1, 2, 6, 5, 1, 4, 7, 8, -1>>,
    <<1, 2, 5, 5, 2, 6, 3, 0, 4, 3, 4, 7, -1>>,
    <<8, 4, 7, 9, 0, 5, 0, 6, 5, 0, 2, 6, -1>>,
    <<7, 3, 9, 7, 9, 4, 3, 2, 9, 5, 9, 6, 2, 6, 9, -1>>,
    <<3, 11, 2, 7, 8, 4, 10, 6, 5, -1>>,
    <<5, 10, 6, 4, 7, 2, 4, 2, 0, 2, 7, 11, -1>>,
    <<0, 1, 9, 4, 7, 8, 2, 3, 11, 5, 10, 6, -1>>,
    <<9, 2, 1, 9, 11, 2, 9, 4, 11, 7, 11, 4, 5, 10, 6, -1>>,
    <<8, 4, 7, 3, 11, 5, 3, 5, 1, 5, 11, 6, -1>>,
    <<5, 1, 11, 5, 11, 6, 1, 0, 11, 7, 11, 4, 0, 4, 11, -1>>,
    <<0, 5, 9, 0, 6, 5, 0, 3, 6, 11, 6, 3, 8, 4, 7, -1>>,
    <<6, 5, 9, 6, 9, 11, 4, 7, 9, 7, 11, 9, -1>>,
    <<10, 4, 9, 6, 4, 10, -1>>,
    <<4, 10, 6, 4, 9, 10, 0, 8, 3, -1>>,
    <<10, 0, 1, 10, 6, 0, 6, 4, 0, -1>>,
    <<8, 3, 1, 8, 1, 6, 8, 6, 4, 6, 1, 10, -1>>,
    <<1, 4, 9, 1, 2, 4, 2, 6, 4, -1>>,
    <<3, 0, 8, 1, 2, 9, 2, 4, 9, 2, 6, 4, -1>>,
    <<0, 2, 4, 4, 2, 6, -1>>,
    <<8, 3, 2, 8, 2, 4, 4, 2, 6, -1>>,
    <<10, 4, 9, 10, 6, 4, 11, 2, 3, -1>>,
    <<0, 8, 2, 2, 8, 11, 4, 9, 10, 4, 10, 6, -1>>,
    <<3, 11, 2, 0, 1, 6, 0, 6, 4, 6, 1, 10, -1>>,
    <<6, 4, 1, 6, 1, 10, 4, 8, 1, 2, 1, 11, 8, 11, 1, -1>>,
    <<9, 6, 4, 9, 3, 6, 9, 1, 3, 11, 6, 3, -1>>,
    <<8, 11, 1, 8, 1, 0, 11, 6, 1, 9, 1, 4, 6, 4, 1, -1>>,
    <<3, 11, 6, 3, 6, 0, 0, 6, 4, -1>>,
    <<6, 4, 8, 11, 6, 8, -1>>,
    <<7, 10, 6, 7, 8, 10, 8, 9, 10, -1>>,
    <<0, 7, 3, 0, 10, 7, 0, 9, 10, 6, 7, 10, -1>>,
    <<10, 6, 7, 1, 10, 7, 1, 7, 8, 1, 8, 0, -1>>,
    <<10, 6, 7, 10, 7, 1, 1, 7, 3, -1>>,
    <<1, 2, 6, 1, 6, 8, 1, 8, 9, 8, 6, 7, -1>>,
    <<2, 6, 9, 2, 9, 1, 6, 7, 9, 0, 9, 3, 7, 3, 9, -1>>,
    <<7, 8, 0, 7, 0, 6, 6, 0, 2, -1>>,
    <<7, 3, 2, 6, 7, 2, -1>>,
    <<2, 3, 11, 10, 6, 8, 10, 8, 9, 8, 6, 7, -1>>,
    <<2, 0, 7, 2, 7, 11, 0, 9, 7, 6, 7, 10, 9, 10, 7, -1>>,
    <<1, 8, 0, 1, 7, 8, 1, 10, 7, 6, 7, 10, 2, 3, 11, -1>>,
    <<11, 2, 1, 11, 1, 7, 10, 6, 1, 6, 7, 1, -1>>,
    <<8, 9, 6, 8, 6, 7, 9, 1, 6, 11, 6, 3, 1, 3, 6, -1>>,
    <<0, 9, 1, 11, 6, 7, -1>>,
    <<7, 8, 0, 7, 0, 6, 3, 11, 0, 11, 6, 0, -1>>,
    <<7, 11, 6, -1>>,
    <<7, 11, 6, -1>>,
    <<3, 0, 8, 11, 7, 6, -1>>,
    <<0, 1, 9, 11, 7, 6, -1>>,
    <<8, 1, 9, 8, 3, 1, 11, 7, 6, -1>>,
    <<10, 1, 2, 6, 11, 7, -1>>,
    <<1, 2, 10, 3, 0, 8, 6, 11, 7, -1>>,
    <<2, 9, 0, 2, 10, 9, 6, 11, 7, -1>>,
    <<6, 11, 7, 2, 10, 3, 10, 8, 3, 10, 9, 8, -1>>,
    <<7, 2, 3, 6, 2, 7, -1>>,
    <<7, 0, 8, 7, 6, 0, 6, 2, 0, -1>>,
    <<2, 7, 6, 2, 3, 7, 0, 1, 9, -1>>,
    <<1, 6, 2, 1, 8, 6, 1, 9, 8, 8, 7, 6, -1>>,
    <<10, 7, 6, 10, 1, 7, 1, 3, 7, -1>>,
    <<10, 7, 6, 1, 7, 10, 1, 8, 7, 1, 0, 8, -1>>,
    <<0, 3, 7, 0, 7, 10, 0, 10, 9, 6, 10, 7, -1>>,
    <<7, 6, 10, 7, 10, 8, 5, 4, 10, 4, 8, 10, -1>>,
    <<6, 8, 4, 11, 8, 6, -1>>,
    <<3, 6, 11, 3, 0, 6, 0, 4, 6, -1>>,
    <<8, 6, 11, 8, 4, 6, 9, 0, 1, -1>>,
    <<9, 4, 6, 9, 6, 3, 9, 3, 1, 11, 3, 6, -1>>,
    <<6, 8, 4, 6, 11, 8, 2, 10, 1, -1>>,
    <<1, 2, 10, 3, 0, 11, 0, 6, 11, 0, 4, 6, -1>>,
    <<4, 11, 8, 4, 6, 11, 0, 2, 9, 2, 10, 9, -1>>,
    <<10, 9, 3, 10, 3, 2, 9, 4, 3, 11, 3, 6, 4, 6, 3, -1>>,
    <<8, 2, 3, 8, 4, 2, 4, 6, 2, -1>>,
    <<0, 4, 2, 4, 6, 2, -1>>,
    <<1, 9, 0, 2, 3, 4, 2, 4, 6, 4, 3, 8, -1>>,
    <<1, 9, 4, 1, 4, 2, 2, 4, 6, -1>>,
    <<8, 1, 3, 8, 6, 1, 8, 4, 6, 6, 10, 1, -1>>,
    <<10, 1, 0, 10, 0, 6, 6, 0, 4, -1>>,
    <<4, 6, 3, 4, 3, 8, 6, 10, 3, 0, 3, 9, 10, 9, 3, -1>>,
    <<10, 9, 4, 6, 10, 4, -1>>,
    <<4, 9, 5, 7, 6, 11, -1>>,
    <<0, 8, 3, 4, 9, 5, 11, 7, 6, -1>>,
    <<5, 0, 1, 5, 4, 0, 7, 6, 11, -1>>,
    <<11, 7, 6, 8, 3, 4, 3, 5, 4, 3, 1, 5, -1>>,
    <<9, 5, 4, 10, 1, 2, 7, 6, 11, -1>>,
    <<6, 11, 7, 1, 2, 10, 0, 8, 3, 4, 9, 5, -1>>,
    <<7, 6, 11, 5, 4, 10, 4, 2, 10, 4, 0, 2, -1>>,
    <<3, 4, 8, 3, 5, 4, 3, 2, 5, 10, 5, 2, 11, 7, 6, -1>>,
    <<7, 2, 3, 7, 6, 2, 5, 4, 9, -1>>,
    <<9, 5, 4, 0, 8, 6, 0, 6, 2, 6, 8, 7, -1>>,
    <<3, 6, 2, 3, 7, 6, 1, 5, 0, 5, 4, 0, -1>>,
    <<6, 2, 8, 6, 8, 7, 2, 1, 8, 4, 8, 5, 1, 5, 8, -1>>,
    <<9, 5, 4, 10, 1, 6, 1, 7, 6, 1, 3, 7, -1>>,
    <<1, 6, 10, 1, 7, 6, 1, 0, 7, 8, 7, 0, 9, 5, 4, -1>>,
    <<4, 0, 10, 4, 10, 5, 0, 3, 10, 6, 10, 7, 3, 7, 10, -1>>,
    <<7, 6, 10, 7, 10, 8, 5, 4, 10, 4, 8, 10, -1>>,
    <<6, 9, 5, 6, 11, 9, 11, 8, 9, -1>>,
    <<3, 6, 11, 0, 6, 3, 0, 5, 6, 0, 9, 5, -1>>,
    <<0, 11, 8, 0, 5, 11, 0, 1, 5, 5, 6, 11, -1>>,
    <<6, 11, 3, 6, 3, 5, 5, 3, 1, -1>>,
    <<1, 2, 10, 9, 5, 11, 9, 11, 8, 11, 5, 6, -1>>,
    <<0, 11, 3, 0, 6, 11, 0, 9, 6, 5, 6, 9, 1, 2, 10, -1>>,
    <<11, 8, 5, 11, 5, 6, 8, 0, 5, 10, 5, 2, 0, 2, 5, -1>>,
    <<6, 11, 3, 6, 3, 5, 2, 10, 3, 10, 5, 3, -1>>,
    <<5, 8, 9, 5, 2, 8, 5, 6, 2, 3, 8, 2, -1>>,
    <<9, 5, 6, 9, 6, 0, 0, 6, 2, -1>>,
    <<1, 5, 8, 1, 8, 0, 5, 6, 8, 3, 8, 2, 6, 2, 8, -1>>,
    <<1, 5, 6, 2, 1, 6, -1>>,
    <<1, 3, 6, 1, 6, 10, 3, 8, 6, 5, 6, 9, 8, 9, 6, -1>>,
    <<10, 1, 0, 10, 0, 6, 9, 5, 0, 5, 6, 0, -1>>,
    <<0, 3, 8, 5, 6, 10, -1>>,
    <<10, 5, 6, -1>>,
    <<11, 5, 10, 7, 5, 11, -1>>,
    <<11, 5, 10, 11, 7, 5, 8, 3, 0, -1>>,
    <<5, 11, 7, 5, 10, 11, 1, 9, 0, -1>>,
    <<10, 7, 5, 10, 11, 7, 9, 8, 1, 8, 3, 1, -1>>,
    <<11, 1, 2, 11, 7, 1, 7, 5, 1, -1>>,
    <<0, 8, 3, 1, 2, 7, 1, 7, 5, 7, 2, 11, -1>>,
    <<9, 7, 5, 9, 2, 7, 9, 0, 2, 2, 11, 7, -1>>,
    <<7, 5, 2, 7, 2, 11, 5, 9, 2, 3, 2, 8, 9, 8, 2, -1>>,
    <<2, 5, 10, 2, 3, 5, 3, 7, 5, -1>>,
    <<8, 2, 0, 8, 5, 2, 8, 7, 5, 10, 2, 5, -1>>,
    <<9, 0, 1, 5, 10, 3, 5, 3, 7, 3, 10, 2, -1>>,
    <<9, 8, 2, 9, 2, 1, 8, 7, 2, 10, 2, 5, 7, 5, 2, -1>>,
    <<1, 3, 5, 3, 7, 5, -1>>,
    <<0, 8, 7, 0, 7, 1, 1, 7, 5, -1>>,
    <<9, 0, 3, 9, 3, 5, 5, 3, 7, -1>>,
    <<9, 8, 7, 5, 9, 7, -1>>,
    <<5, 8, 4, 5, 10, 8, 10, 11, 8, -1>>,
    <<5, 0, 4, 5, 11, 0, 5, 10, 11, 11, 3, 0, -1>>,
    <<0, 1, 9, 8, 4, 10, 8, 10, 11, 10, 4, 5, -1>>,
    <<10, 11, 4, 10, 4, 5, 11, 3, 4, 9, 4, 1, 3, 1, 4, -1>>,
    <<2, 5, 1, 2, 8, 5, 2, 11, 8, 4, 5, 8, -1>>,
    <<0, 4, 11, 0, 11, 3, 4, 5, 11, 2, 11, 1, 5, 1, 11, -1>>,
    <<0, 2, 5, 0, 5, 9, 2, 11, 5, 4, 5, 8, 11, 8, 5, -1>>,
    <<9, 4, 5, 2, 11, 3, -1>>,
    <<2, 5, 10, 3, 5, 2, 3, 4, 5, 3, 8, 4, -1>>,
    <<5, 10, 2, 5, 2, 4, 4, 2, 0, -1>>,
    <<3, 10, 2, 3, 5, 10, 3, 8, 5, 4, 5, 8, 0, 1, 9, -1>>,
    <<5, 10, 2, 5, 2, 4, 1, 9, 2, 9, 4, 2, -1>>,
    <<8, 4, 5, 8, 5, 3, 3, 5, 1, -1>>,
    <<0, 4, 5, 1, 0, 5, -1>>,
    <<8, 4, 5, 8, 5, 3, 9, 0, 5, 0, 3, 5, -1>>,
    <<9, 4, 5, -1>>,
    <<4, 11, 7, 4, 9, 11, 9, 10, 11, -1>>,
    <<0, 8, 3, 4, 9, 7, 9, 11, 7, 9, 10, 11, -1>>,
    <<1, 10, 11, 1, 11, 4, 1, 4, 0, 7, 4, 11, -1>>,
    <<3, 1, 4, 3, 4, 8, 1, 7, 10, 7, 11, 10, -1>>,
    <<4, 11, 7, 9, 11, 4, 9, 2, 11, 9, 1, 2, -1>>,
    <<9, 7, 4, 9, 11, 7, 9, 1, 11, 2, 11, 1, 0, 8, 3, -1>>,
    <<11, 7, 4, 11, 4, 2, 2, 4, 0, -1>>,
    <<11, 7, 4, 11, 4, 2, 8, 3, 4, 3, 2, 4, -1>>,
    <<2, 9, 10, 2, 7, 9, 2, 3, 7, 7, 4, 9, -1>>,
    <<9, 10, 7, 9, 7, 4, 10, 2, 7, 8, 7, 0, 2, 0, 7, -1>>,
    <<3, 7, 10, 3, 10, 2, 7, 4, 10, 1, 10, 0, 4, 0, 10, -1>>,
    <<1, 10, 2, 8, 7, 4, -1>>,
    <<4, 9, 1, 4, 1, 7, 7, 1, 3, -1>>,
    <<4, 9, 1, 4, 1, 7, 0, 8, 1, 8, 7, 1, -1>>,
    <<4, 0, 3, 7, 4, 3, -1>>,
    <<4, 8, 7, -1>>,
    <<9, 10, 8, 10, 11, 8, -1>>,
    <<3, 0, 9, 3, 9, 11, 11, 9, 10, -1>>,
    <<0, 1, 10, 0, 10, 8, 8, 10, 11, -1>>,
    <<3, 1, 10, 11, 3, 10, -1>>,
    <<1, 2, 11, 1, 11, 9, 9, 11, 8, -1>>,
    <<3, 0, 9, 3, 9, 11, 1, 2, 9, 2, 11, 9, -1>>,
    <<0, 2, 11, 8, 0, 11, -1>>,
    <<3, 2, 11, -1>>,
    <<2, 3, 8, 2, 8, 10, 10, 8, 9, -1>>,
    <<9, 10, 2, 0, 9, 2, -1>>,
    <<2, 3, 8, 2, 8, 10, 0, 1, 8, 1, 10, 8, -1>>,
    <<1, 10, 2, -1>>,
    <<1, 3, 8, 9, 1, 8, -1>>,
    <<0, 9, 1, -1>>,
    <<0, 3, 8, -1>>,
    <<-1>>>>

\* TRIANGLE_TABLE[cubeIndex]
tableLookup(cubeIndex) == TRIANGLE_TABLE[cubeIndex + 1]

\* the edge indices an entry lists (the elements before the first -1)
RECURSIVE entryEdges(_, _)
entryEdges(entry, i) ==
  IF i > Len(entry) \/ entry[i] = -1 THEN <<>>
  ELSE <<entry[i]>> \o entryEdges(entry, i + 1)

\* a configuration index is looked up
LookupTable(c) ==
  /\ tableIndex' = c
  /\ tableEntry' = tableLookup(c)
  /\ UNCHANGED notTable

TableNext == \E c \in 0..255 : LookupTable(c)

TableSpec == Init /\ [][TableNext]_vars

\* ------------------------------------------------------------------------
\* Properties of the Triangle Table
\* ------------------------------------------------------------------------
EdgeSet(entry) == {entry[i] : i \in {j \in 1..Len(entry) : entry[j] # -1}}

\* C16: the entry of a configuration and the entry of its bitwise complement
\* list the same set of edges.
ComplementSameEdges ==
  tableIndex # -1 => EdgeSet(tableEntry) = EdgeSet(tableLookup(255 - tableIndex))

LimbBits == 14
Limb == 2 ^ LimbBits
BigNat == Seq(0..(Limb - 1))
MantissaBits == 53

bnTrim[a \in BigNat] ==
  IF a = <<>> THEN a
  ELSE IF a[Len(a)] = 0 THEN bnTrim[SubSeq(a, 1, Len(a) - 1)] ELSE a

bnHead(a) == IF a = <<>> THEN 0 ELSE Head(a)
bnTail(a) == IF a = <<>> THEN <<>> ELSE Tail(a)

bnAdd[a \in BigNat, b \in BigNat, c \in 0..1] ==
  IF a = <<>> /\ b = <<>> THEN (IF c = 0 THEN <<>> ELSE <<c>>)
  ELSE <<(bnHead(a) + bnHead(b) + c) % Limb>>
         \o bnAdd[bnTail(a), bnTail(b), (bnHead(a) + bnHead(b) + c) \div Limb]

\* a - b - c for a >= b + c, not trimmed
bnSub[a \in BigNat, b \in BigNat, c \in 0..1] ==
  IF a = <<>> THEN <<>>
  ELSE <<(bnHead(a) - bnHead(b) - c) % Limb>>
         \o bnSub[bnTail(a), bnTail(b), IF bnHead(a) - bnHead(b) - c < 0 THEN 1 ELSE 0]

\* -1, 0 or 1 as a < b, a = b or a > b (both trimmed)
bnCmp[a \in BigNat, b \in BigNat] ==
  IF Len(a) # Len(b) THEN (IF Len(a) < Len(b) THEN -1 ELSE 1)
  ELSE IF a = <<>> THEN 0
  ELSE IF a[Len(a)] # b[Len(b)] THEN (IF a[Len(a)] < b[Len(b)] THEN -1 ELSE 1)
  ELSE bnCmp[SubSeq(a, 1, Len(a) - 1), SubSeq(b, 1, Len(b) - 1)]

bnMulSmall[a \in BigNat, k \in 0..Limb, c \in 0..Limb] ==
  IF a = <<>> THEN (IF c = 0 THEN <<>> ELSE <<c>>)
  ELSE <<(Head(a) * k + c) % Limb>> \o bnMulSmall[Tail(a), k, (Head(a) * k + c) \div Limb]

bnMul[a \in BigNat, b \in BigNat] ==
  IF b = <<>> THEN <<>>
  ELSE bnAdd[bnMulSmall[a, Head(b), 0], bnTrim[<<0>> \o bnMul[a, Tail(b)]], 0]

bnFromInt[n \in Nat] ==
  IF n = 0 THEN <<>> ELSE <<n % Limb>> \o bnFromInt[n \div Limb]

\* the value of a, for a below 2^31
bnToInt[a \in BigNat] ==
  IF a = <<>> THEN 0 ELSE Head(a) + Limb * bnToInt[Tail(a)]

bnZeros(n) == [i \in 1..n |-> 0]

\* a * 2^k
bnShl(a, k) ==
  IF a = <<>> THEN <<>>
  ELSE bnZeros(k \div LimbBits) \o bnMulSmall[a, 2 ^ (k % LimbBits), 0]

\* floor(a / 2^r) for r < LimbBits
bnShrSmall(a, r) ==
  bnTrim[<<>> \o [i \in 1..Len(a) |->
    (a[i] \div (2 ^ r))
      + (IF i < Len(a) THEN (a[i + 1] % (2 ^ r)) * (2 ^ (LimbBits - r)) ELSE 0)]]

\* floor(a / 2^k), and whether a nonzero bit was dropped
bnShr(a, k) ==
  IF k \div LimbBits >= Len(a)
  THEN [q |-> <<>>, sticky |-> a # <<>>]
  ELSE [q |-> bnShrSmall(SubSeq(a, k \div LimbBits + 1, Len(a)), k % LimbBits),
        sticky |-> \/ \E i \in 1..(k \div LimbBits) : a[i] # 0
                   \/ a[k \div LimbBits + 1] % (2 ^ (k % LimbBits)) # 0]

\* the number of bits of a (trimmed)
bnBitLen(a) ==
  IF a = <<>> THEN 0
  ELSE LimbBits * (Len(a) - 1)
         + (CHOOSE n \in 1..LimbBits : 2 ^ (n - 1) <= a[Len(a)] /\ a[Len(a)] < 2 ^ n)

Num == [s : -1..1, m : BigNat, e : Int]
ShiftResult == [q : BigNat, sticky : BOOLEAN]

numZero == [s |-> 0, m |-> <<>>, e |-> 0]

\* the mantissa after the rounding increment: 2^53 becomes 2^52 * 2
numCarry[a \in Num] ==
  IF bnBitLen(a.m) > MantissaBits
  THEN [s |-> a.s, m |-> bnShr(a.m, 1).q, e |-> a.e + 1]
  ELSE a

\* m holds 54 bits: the mantissa and the guard bit
numRoundGuard[s \in -1..1, m \in BigNat, e \in Int, sticky \in BOOLEAN] ==
  IF m[1] % 2 = 1 /\ (sticky \/ (m[1] \div 2) % 2 = 1)
  THEN numCarry[[s |-> s, m |-> bnAdd[bnShr(m, 1).q, <<1>>, 0], e |-> e + 1]]
  ELSE [s |-> s, m |-> bnShr(m, 1).q, e |-> e + 1]

numRoundShifted[s \in -1..1, r \in ShiftResult, e \in Int, sticky \in BOOLEAN] ==
  numRoundGuard[s, r.q, e, sticky \/ r.sticky]

\* the double nearest to s * (m + sticky fraction) * 2^e, m trimmed
numRound[s \in -1..1, m \in BigNat, e \in Int, sticky \in BOOLEAN] ==
  IF m = <<>> THEN numZero
  ELSE IF bnBitLen(m) <= MantissaBits
  THEN [s |-> s, m |-> bnShl(m, MantissaBits - bnBitLen(m)),
        e |-> e - (MantissaBits - bnBitLen(m))]
  ELSE numRoundShifted[s, bnShr(m, bnBitLen(m) - MantissaBits - 1),
                       e + (bnBitLen(m) - MantissaBits - 1), sticky]

numFromInt[n \in Int] ==
  IF n = 0 THEN numZero
  ELSE numRound[IF n < 0 THEN -1 ELSE 1, bnFromInt[IF n < 0 THEN -n ELSE n], 0, FALSE]

numNeg[a \in Num] == [a EXCEPT !.s = -a.s]

Min2(i, j) == IF i < j THEN i ELSE j

\* x and y are the magnitudes of a and b in units of 2^e
numAddAligned[a \in Num, b \in Num, x \in BigNat, y \in BigNat, e \in Int] ==
  IF a.s = b.s THEN numRound[a.s, bnAdd[x, y, 0], e, FALSE]
  ELSE IF bnCmp[x, y] = 0 THEN numZero
  ELSE IF bnCmp[x, y] > 0 THEN numRound[a.s, bnTrim[bnSub[x, y, 0]], e, FALSE]
  ELSE numRound[b.s, bnTrim[bnSub[y, x, 0]], e, FALSE]

\* a + b
numAdd[a \in Num, b \in Num] ==
  IF a.s = 0 THEN b
  ELSE IF b.s = 0 THEN a
  ELSE numAddAligned[a, b, bnShl(a.m, a.e - Min2(a.e, b.e)),
                     bnShl(b.m, b.e - Min2(a.e, b.e)), Min2(a.e, b.e)]

\* a - b
numSub[a \in Num, b \in Num] == numAdd[a, numNeg[b]]

\* a * b
numMul[a \in Num, b \in Num] ==
  IF a.s = 0 \/ b.s = 0 THEN numZero
  ELSE numRound[a.s * b.s, bnTrim[bnMul[a.m, b.m]], a.e + b.e, FALSE]

\* long division of mantissas: n quotient bits of r / d for r < 2 d
numDivBits[r \in BigNat, d \in BigNat, q \in BigNat, n \in Nat] ==
  IF n = 0 THEN [q |-> q, sticky |-> r # <<>>]
  ELSE IF bnCmp[r, d] >= 0
  THEN numDivBits[bnShl(bnTrim[bnSub[r, d, 0]], 1), d, bnMulSmall[q, 2, 1], n - 1]
  ELSE numDivBits[bnShl(r, 1), d, bnMulSmall[q, 2, 0], n - 1]

\* the truncated result r of 55 bits or more, rounded
numDivRound[s \in -1..1, r \in ShiftResult, e \in Int] ==
  numRoundShifted[s, bnShr(r.q, bnBitLen(r.q) - MantissaBits - 1),
                  e + (bnBitLen(r.q) - MantissaBits - 1), r.sticky]

\* a / b for b # 0
numDiv[a \in Num, b \in Num] ==
  IF a.s = 0 THEN numZero
  ELSE numDivRound[a.s * b.s, numDivBits[a.m, b.m, <<>>, MantissaBits + 3],
                   a.e - b.e - (MantissaBits + 2)]

\* -1, 0 or 1 as a < b, a = b or a > b
numCmp[a \in Num, b \in Num] == numSub[a, b].s

\* Math.abs(a)
numAbs[a \in Num] == [a EXCEPT !.s = IF a.s = 0 THEN 0 ELSE 1]

\* floor(2 |a|) and whether a fraction was dropped, for |a| < 2^29
numTwice[a \in Num] ==
  IF a.e + 1 >= 0 THEN [q |-> bnShl(a.m, a.e + 1), sticky |-> FALSE]
  ELSE bnShr(a.m, -(a.e + 1))

mathRoundTwice[s \in -1..1, t \in ShiftResult] ==
  IF s > 0 THEN (bnToInt[t.q] + 1) \div 2
  ELSE -((bnToInt[t.q] + (IF t.sticky THEN 1 ELSE 0)) \div 2)

\* Math.round(a): the integer nearest to a, ties towards +Infinity
mathRound[a \in Num] ==
  IF a.s = 0 THEN 0 ELSE mathRoundTwice[a.s, numTwice[a]]

\* Math.sqrt(n) for an integer n >= 1: the bits of floor(sqrt(n * 2^108)) are
\* found from the highest down
numSqrtBits[n \in BigNat, r \in BigNat, i \in Int] ==
  IF i < 0 THEN [q |-> r, sticky |-> bnCmp[bnTrim[bnMul[r, r]], n] # 0]
  ELSE IF bnCmp[bnTrim[bnMul[bnAdd[r, bnShl(<<1>>, i), 0], bnAdd[r, bnShl(<<1>>, i), 0]]], n] <= 0
  THEN numSqrtBits[n, bnAdd[r, bnShl(<<1>>, i), 0], i - 1]
  ELSE numSqrtBits[n, r, i - 1]

mathSqrt[n \in Nat] ==
  IF n = 0 THEN numZero
  ELSE numDivRound[1, numSqrtBits[bnShl(bnFromInt[n], 2 * (MantissaBits + 1)), <<>>,
                                  MantissaBits + 16],
                   -(MantissaBits + 1)]

EDGES ==
  <<<<0, 1>>, <<1, 2>>, <<2, 3>>, <<3, 0>>,
    <<4, 5>>, <<5, 6>>, <<6, 7>>, <<7, 4>>,
    <<0, 4>>, <<1, 5>>, <<2, 6>>, <<3, 7>>>>

VERTICES ==
  <<<<0, 0, 0>>, <<1, 0, 0>>, <<1, 0, 1>>, <<0, 0, 1>>,
    <<0, 1, 0>>, <<1, 1, 0>>, <<1, 1, 1>>, <<0, 1, 1>>>>

\* densities and iso levels of the model are given in quarters: q stands for
\* the number q / 4, which a Float32Array holds exactly
numQuarters[q \in Int] == numDiv[numFromInt[q], numFromInt[4]]

\* the options an extractor of the model can have
McOptionSets == {mergeOptions(defaultMcOptions, o) : o \in McConstructorArgs}

\* scalar fields on a grid of 2 x 2 x 2 samples: 0.75 everywhere, -1
\* everywhere, and -1 at the sample (0, 0, 0) with 1 at the others
McFields ==
  { [sizeX |-> 2, sizeY |-> 2, sizeZ |-> 2, data |-> <<3, 3, 3, 3, 3, 3, 3, 3>>],
    [sizeX |-> 2, sizeY |-> 2, sizeZ |-> 2, data |-> <<-4, -4, -4, -4, -4, -4, -4, -4>>],
    [sizeX |-> 2, sizeY |-> 2, sizeZ |-> 2, data |-> <<-4, 4, 4, 4, 4, 4, 4, 4>>] }

getScalarFieldIndex(x, y, z, sizeX, sizeY, sizeZ) ==
  IF x < 0 \/ y < 0 \/ z < 0 \/ x >= sizeX \/ y >= sizeY \/ z >= sizeZ
  THEN -1
  ELSE x + y * sizeX + z * sizeX * sizeY

Abs(i) == IF i < 0 THEN -i ELSE i

\* 1 / (1 + Math.sqrt(d2)) for the squared distances d2 of the samples
idwWeights ==
  <<>> \o [d2 \in 1..12 |->
            numDiv[numFromInt[1], numAdd[numFromInt[1], mathSqrt[d2]]]]

\* the loops over dz, dy, dx from the sample with index i on: they visit the
\* samples of the grid within 2 of the corner c in the order of their
\* indices; c is outside the grid, so no sample is at distance 0
sampleNearby[g \in McFields, c \in Seq(Int), i \in Nat, totalValue \in Num, totalWeight \in Num] ==
  IF i >= Len(g.data) THEN [totalValue |-> totalValue, totalWeight |-> totalWeight]
  ELSE LET dx == (i % g.sizeX) - c[1]
           dy == ((i \div g.sizeX) % g.sizeY) - c[2]
           dz == (i \div (g.sizeX * g.sizeY)) - c[3]
       IN IF Abs(dx) <= 2 /\ Abs(dy) <= 2 /\ Abs(dz) <= 2
          THEN sampleNearby[g, c, i + 1,
                 numAdd[totalValue,
                        numMul[numQuarters[g.data[i + 1]],
                               idwWeights[dx * dx + dy * dy + dz * dz]]],
                 numAdd[totalWeight, idwWeights[dx * dx + dy * dy + dz * dz]]]
          ELSE sampleNearby[g, c, i + 1, totalValue, totalWeight]

SampleTotals == [totalValue : Num, totalWeight : Num]

\* the value of a corner outside the grid
extrapolated[t \in SampleTotals] ==
  IF t.totalWeight.s > 0 THEN numDiv[t.totalValue, t.totalWeight]
  ELSE numFromInt[-1]

\* cubeValues[i] of the corner c
cornerValue[g \in McFields, c \in Seq(Int)] ==
  IF getScalarFieldIndex(c[1], c[2], c[3], g.sizeX, g.sizeY, g.sizeZ) # -1
  THEN numQuarters[g.data[getScalarFieldIndex(c[1], c[2], c[3],
                                              g.sizeX, g.sizeY, g.sizeZ) + 1]]
  ELSE extrapolated[sampleNearby[g, c, 0, numZero, numZero]]

cubeValues[g \in McFields, cube \in Seq(Int)] ==
  <<>> \o [i \in 1..8 |->
            cornerValue[g, <<cube[1] + VERTICES[i][1], cube[2] + VERTICES[i][2],
                             cube[3] + VERTICES[i][3]>>]]

\* bit i is set iff cubeValues[i] < isoLevel
cubeIndexOf[values \in Seq(Num), isoLevel \in Num] ==
  LET bit(i) == IF numCmp[values[i + 1], isoLevel] < 0 THEN 2 ^ i ELSE 0
  IN bit(0) + bit(1) + bit(2) + bit(3) + bit(4) + bit(5) + bit(6) + bit(7)

edgeCrossed(cubeIndex, edge) ==
  \E i \in 1..Len(entryEdges(tableLookup(cubeIndex), 1)) :
    tableLookup(cubeIndex)[i] = edge

numMin[a \in Num, b \in Num] == IF numCmp[a, b] <= 0 THEN a ELSE b
numMax[a \in Num, b \in Num] == IF numCmp[a, b] >= 0 THEN a ELSE b

\* the place of the crossing along an edge
interpolationT[val1 \in Num, val2 \in Num, isoLevel \in Num] ==
  IF numCmp[numAbs[numSub[val1, val2]],
            numDiv[numFromInt[1], numFromInt[100000]]] > 0
  THEN numMax[numDiv[numFromInt[1], numFromInt[1000]],
              numMin[numDiv[numFromInt[999], numFromInt[1000]],
                     numDiv[numSub[isoLevel, val1], numSub[val2, val1]]]]
  ELSE numDiv[numFromInt[1], numFromInt[2]]

\* x + p1 + t * (p2 - p1) on one axis
gridCoordinate[x \in Int, p1 \in Int, p2 \in Int, t \in Num] ==
  numAdd[numFromInt[x + p1], numMul[t, numFromInt[p2 - p1]]]

\* min + (v / (size - 1)) * (max - min)
gridToWorld[v \in Num, size \in Nat, min \in Int, max \in Int] ==
  numAdd[numFromInt[min],
         numMul[numDiv[v, numFromInt[size - 1]], numFromInt[max - min]]]

McBounds == [DOMAIN defaultMcOptions.bounds -> Int]

\* the vertex on edge e of the cube, at the crossing place t
edgeVertexAt[g \in McFields, bounds \in McBounds, cube \in Seq(Int), e \in 0..11, t \in Num] ==
  LET p1 == VERTICES[EDGES[e + 1][1] + 1]
      p2 == VERTICES[EDGES[e + 1][2] + 1]
  IN <<gridToWorld[gridCoordinate[cube[1], p1[1], p2[1], t], g.sizeX,
                   bounds.minX, bounds.maxX],
       gridToWorld[gridCoordinate[cube[2], p1[2], p2[2], t], g.sizeY,
                   bounds.minY, bounds.maxY],
       gridToWorld[gridCoordinate[cube[3], p1[3], p2[3], t], g.sizeZ,
                   bounds.minZ, bounds.maxZ]>>

\* edgeVertices: the vertex of every crossed edge, <<>> for the others
edgeVertices[g \in McFields, bounds \in McBounds, isoLevel \in Num, cube \in Seq(Int), values \in Seq(Num), cubeIndex \in 0..255] ==
  <<>> \o [n \in 1..12 |->
    IF edgeCrossed(cubeIndex, n - 1)
    THEN edgeVertexAt[g, bounds, cube, n - 1,
                      interpolationT[values[EDGES[n][1] + 1], values[EDGES[n][2] + 1],
                                     isoLevel]]
    ELSE <<>>]

\* the arrays of a pass and the vertex cache of the extractor; quantized
\* holds the rounded position of every vertex emitted in seamless mode
McOut ==
  [positions : Seq(Seq(Num)), normals : Seq(Seq(Seq(Num))), quantized : Seq(Seq(Int)),
   indices : Seq(Nat), vertexCache : SUBSET (Seq(Int) \X Nat)]

\* edgeNormals[e]: the normalized gradient that calculateNormal gives at the
\* crossing; it is a function of the crossing's place, stands here as the
\* gradient taken at that place, and is not evaluated (the normals of the
\* geometry are observed by their number only)
edgeNormal(vertex) == <<vertex>>

\* Math.round(v * precision) per axis, in units of 1 / precision: these
\* three integers determine the key string of a vertex
quantize[vertex \in Seq(Num)] ==
  <<mathRound[numMul[vertex[1], numFromInt[1000]]],
    mathRound[numMul[vertex[2], numFromInt[1000]]],
    mathRound[numMul[vertex[3], numFromInt[1000]]]>>

\* mutant: the cache forgets
cacheSetNothing(cache, key, index) == cache

\* mutant: the index after the cached one
cacheGetOffByOne(cache, key) == (CHOOSE p \in cache : p[1] = key)[2] + 1

\* vertexCache.has, get, set and clear
cacheHas(cache, key) == \E p \in cache : p[1] = key
cacheGet(cache, key) == (CHOOSE p \in cache : p[1] = key)[2]
cacheSet(cache, key, index) ==
  {p \in cache : p[1] # key} \cup {<<key, index>>}

\* mutant: the cache of the last pass is kept
cacheKeep(cache) == cache

cacheClear(cache) == {}

\* the vertex of one triangle corner: the arrays afterwards and the index
\* pushed on triangleIndices
emitVertex[out \in McOut, vertex \in Seq(Num), key \in Seq(Int), seamless \in BOOLEAN] ==
  IF seamless
  THEN IF cacheHas(out.vertexCache, key)
       THEN [out |-> out, index |-> cacheGet(out.vertexCache, key)]
       ELSE [out |-> [out EXCEPT
                        !.positions = Append(@, vertex),
                        !.normals = Append(@, edgeNormal(vertex)),
                        !.quantized = Append(@, key),
                        !.vertexCache = cacheSet(@, key, Len(out.positions))],
             index |-> Len(out.positions)]
  ELSE [out |-> [out EXCEPT !.positions = Append(@, vertex),
                            !.normals = Append(@, edgeNormal(vertex))],
        index |-> Len(out.positions)]

\* indices.push of a triangle, and of its reverse if doubleSided
pushTriangle[out \in McOut, t \in Seq(Nat), doubleSided \in BOOLEAN] ==
  [out EXCEPT !.indices =
     @ \o t \o (IF doubleSided THEN <<t[3], t[2], t[1]>> ELSE <<>>)]

\* the loop over the triangles of the table entry, from its element i on
createTriangles[out \in McOut, entry \in Seq(Int), i \in Nat, ev \in Seq(Seq(Num)), seamless \in BOOLEAN, doubleSided \in BOOLEAN] ==
  IF entry[i] = -1 THEN out
  ELSE LET keyOf(j) == IF seamless THEN quantize[ev[entry[i + j] + 1]] ELSE <<>>
           a == emitVertex[out, ev[entry[i] + 1], keyOf(0), seamless]
           b == emitVertex[a.out, ev[entry[i + 1] + 1], keyOf(1), seamless]
           c == emitVertex[b.out, ev[entry[i + 2] + 1], keyOf(2), seamless]
       IN createTriangles[pushTriangle[c.out, <<a.index, b.index, c.index>>, doubleSided],
                          entry, i + 3, ev, seamless, doubleSided]

\* polygonizeCube with the cube index known
polygonizeIndexed[g \in McFields, options \in McOptionSets, cube \in Seq(Int), values \in Seq(Num), cubeIndex \in 0..255, out \in McOut] ==
  IF tableLookup(cubeIndex)[1] = -1 THEN out
  ELSE createTriangles[out, tableLookup(cubeIndex), 1,
                       edgeVertices[g, options.bounds, numQuarters[options.isoLevel],
                                    cube, values, cubeIndex],
                       options.seamless, options.doubleSided]

\* polygonizeCube with the corner values known
polygonizeValues[g \in McFields, options \in McOptionSets, cube \in Seq(Int), values \in Seq(Num), out \in McOut] ==
  polygonizeIndexed[g, options, cube, values,
                    cubeIndexOf[values, numQuarters[options.isoLevel]], out]

polygonizeCube(g, options, cube, out) ==
  polygonizeValues[g, options, cube, cubeValues[g, cube], out]

\* the loops of generateMesh: the cube after cube, <<>> after the last
nextCube(g, cube) ==
  IF cube[1] < g.sizeX - 1 THEN <<cube[1] + 1, cube[2], cube[3]>>
  ELSE IF cube[2] < g.sizeY - 1 THEN <<-1, cube[2] + 1, cube[3]>>
  ELSE IF cube[3] < g.sizeZ - 1 THEN <<-1, -1, cube[3] + 1>>
  ELSE <<>>

McOutState ==
  [positions |-> positions, normals |-> normals, quantized |-> quantized,
   indices |-> indices, vertexCache |-> vertexCache]

\* new MarchingCubes(options): another extractor takes the place of the one
\* at hand
NewMarchingCubes(o) ==
  /\ mcCube = <<>>
  /\ \E m \in {newMarchingCubes(o)} :
       /\ mcOptions' = m.options
       /\ vertexCache' = m.vertexCache
       /\ mcGeometry' = m.geometry
       /\ mcPrevious' = m.geometry
  /\ mcField' = NoField
  /\ positions' = <<>>
  /\ normals' = <<>>
  /\ indices' = <<>>
  /\ quantized' = <<>>
  /\ nPass' = 0
  /\ UNCHANGED mcCube
  /\ UNCHANGED notMc

\* generateMesh(scalarField, sizeX, sizeY, sizeZ) is called: the cache is
\* cleared and the arrays are empty
GenerateMeshCall(g) ==
  /\ mcCube = <<>>
  /\ nPass < MaxPasses
  /\ nPass' = nPass + 1
  /\ mcField' = g
  /\ vertexCache' = cacheClear(vertexCache)
  /\ positions' = <<>>
  /\ normals' = <<>>
  /\ quantized' = <<>>
  /\ indices' = <<>>
  /\ mcCube' = <<-1, -1, -1>>
  /\ UNCHANGED <<mcOptions, mcGeometry, mcPrevious>>
  /\ UNCHANGED notMc

\* one polygonizeCube call of the loops; after the last one generateMesh
\* returns the geometry
PolygonizeCube ==
  /\ mcCube # <<>>
  /\ \E out \in {polygonizeCube(mcField, mcOptions, mcCube, McOutState)} :
       /\ vertexCache' = out.vertexCache
       /\ quantized' = out.quantized
       /\ mcCube' = nextCube(mcField, mcCube)
       /\ IF nextCube(mcField, mcCube) = <<>>
          THEN /\ mcGeometry' = [scalarField |-> mcField, options |-> mcOptions,
                                 positions |-> out.positions,
                                 normals |-> out.normals, indices |-> out.indices]
               /\ mcPrevious' = mcGeometry
               /\ positions' = <<>>
               /\ normals' = <<>>
               /\ indices' = <<>>
          ELSE /\ positions' = out.positions
               /\ normals' = out.normals
               /\ indices' = out.indices
               /\ UNCHANGED <<mcGeometry, mcPrevious>>
  /\ UNCHANGED <<mcOptions, mcField, nPass>>
  /\ UNCHANGED notMc

McNext ==
  \/ \E o \in McConstructorArgs : NewMarchingCubes(o)
  \/ \E g \in McFields : GenerateMeshCall(g)
  \/ PolygonizeCube

McSpec == Init /\ [][McNext]_vars

\* ------------------------------------------------------------------------
\* The options of the extractor
\* ------------------------------------------------------------------------
\* arguments of the constructor and of updateOptions: those of the tests
\* (resolution, isoLevel 0.25 and bounds; resolution, size, isoLevel 0.5 and
\* bounds), single options, and the constructor arguments of the passes
McOptionArgs ==
  McConstructorArgs \cup
  { [resolution |-> 48, isoLevel |-> 1,
     bounds |-> [minX |-> -2, maxX |-> 2, minY |-> -1, maxY |-> 1,
                 minZ |-> -1, maxZ |-> 1]],
    [resolution |-> 64, size |-> 100, isoLevel |-> 2,
     bounds |-> [minX |-> -5, maxX |-> 5, minY |-> -5, maxY |-> 5,
                 minZ |-> -5, maxZ |-> 5]],
    [size |-> 25],
    [debugVoxels |-> TRUE],
    [seamless |-> FALSE],
    [seamless |-> TRUE, doubleSided |-> TRUE] }

\* updateOptions(options), between two calls of generateMesh
UpdateOptions(o) ==
  /\ mcCube = <<>>
  /\ mcOptions' = mergeOptions(mcOptions, o)
  /\ UNCHANGED <<vertexCache, mcField, mcCube, positions, normals, indices, quantized,
                 mcGeometry, mcPrevious, nPass>>
  /\ UNCHANGED notMc

\* getOptions(): a copy of the options
getOptions == [k \in DOMAIN mcOptions |-> mcOptions[k]]

OptionsNext ==
  \/ \E o \in McOptionArgs : NewMarchingCubes(o)
  \/ \E o \in McOptionArgs : UpdateOptions(o)

OptionsSpec == Init /\ [][OptionsNext]_vars

\* ------------------------------------------------------------------------
\* Properties of the extractor
\* ------------------------------------------------------------------------
\* every sample of the field g is below the iso level, or every sample is at
\* or above it, and all samples are equal
ConstantOneSided(g, isoLevel) ==
  /\ g.data # <<>>
  /\ \A i \in 1..Len(g.data) : g.data[i] = g.data[1]
  /\ \/ \A i \in 1..Len(g.data) : g.data[i] < isoLevel
     \/ \A i \in 1..Len(g.data) : g.data[i] >= isoLevel

\* C18: for a constant field entirely below the iso level, and for one
\* entirely at or above it, generateMesh emits no vertex and no triangle,
\* the cubes one beyond each boundary included.
ConstantFieldNoGeometry ==
  /\ ConstantOneSided(mcField, mcOptions.isoLevel) =>
       positions = <<>> /\ indices = <<>>
  /\ ConstantOneSided(mcGeometry.scalarField, mcGeometry.options.isoLevel) =>
       mcGeometry.positions = <<>> /\ mcGeometry.indices = <<>>

\* the vertices of the running call, or of the geometry last returned
emittedVertices == IF mcCube = <<>> THEN mcGeometry.positions ELSE positions
emittedIndices == IF mcCube = <<>> THEN mcGeometry.indices ELSE indices

\* C19: in seamless mode no two vertex indices emitted in one pass have the
\* same quantized position: the cache holds the index of every quantized
\* position emitted, and a crossing at such a position reuses that index.
SeamlessVerticesDistinct ==
  (mcOptions.seamless /\ nPass >= 1) =>
    /\ Len(quantized) = Len(emittedVertices)
    /\ \A i, j \in 1..Len(quantized) : quantized[i] = quantized[j] => i = j
    /\ vertexCache = {<<quantized[i], i - 1>> : i \in 1..Len(quantized)}
    /\ \A i \in 1..Len(emittedIndices) : emittedIndices[i] < Len(quantized)

\* witness of C19: a vertex is used by two triangles of a seamless pass
VertexReused ==
  /\ mcOptions.seamless
  /\ mcCube = <<>>
  /\ mcGeometry.positions # <<>>
  /\ \E i, j \in 1..Len(mcGeometry.indices) :
       /\ (i - 1) \div 6 # (j - 1) \div 6
       /\ mcGeometry.indices[i] = mcGeometry.indices[j]

\* C20: a generateMesh call does not change the field it is given, and a
\* call with the field and the options of the call before returns the same
\* vertices and the same indices as the call before.
RepeatedPassIdentical ==
  [][mcCube # <<>> =>
       /\ mcField' = mcField
       /\ (/\ mcCube' = <<>>
           /\ mcGeometry.scalarField = mcField
           /\ mcGeometry.options = mcOptions) =>
            /\ mcGeometry'.positions = mcGeometry.positions
            /\ mcGeometry'.indices = mcGeometry.indices]_vars

\* witness of C20: the second call had the inputs of the first and returned
\* its vertices again
SamePassTwice ==
  /\ nPass = 2
  /\ mcCube = <<>>
  /\ mcPrevious.scalarField = mcGeometry.scalarField
  /\ mcGeometry.positions # <<>>
  /\ mcGeometry.indices # <<>>
  /\ mcPrevious.positions = mcGeometry.positions
  /\ mcOptions.seamless

\* ========================================================================
\* Part V - further properties of the table, the extractor and the manager
\* ========================================================================
\* corner v (0..7) has its bit set in configuration c
cornerBitSet(c, v) == (c \div (2 ^ v)) % 2 = 1

\* the entry's edges that do not join a set corner and a clear corner of c
uncrossedEdges(c, entry) ==
  {e \in EdgeSet(entry) :
     cornerBitSet(c, EDGES[e + 1][1]) = cornerBitSet(c, EDGES[e + 1][2])}

\* C29: every edge listed in the entry of a configuration index joins, per
\* EDGES, one corner whose bit is set in the index and one whose bit is clear.
TableEdgesAreCrossed ==
  tableIndex # -1 => uncrossedEdges(tableIndex, tableEntry) = {}

\* a cube whose eight corners are samples of the field g has a corner below
\* the iso level and a corner at or above it (densities and iso level in
\* quarters)
InRangeMixedCell(g, isoLevel) ==
  \E x \in 0..(g.sizeX - 2), y \in 0..(g.sizeY - 2), z \in 0..(g.sizeZ - 2) :
    LET corner(i) == g.data[getScalarFieldIndex(x + VERTICES[i][1], y + VERTICES[i][2],
                                                z + VERTICES[i][3],
                                                g.sizeX, g.sizeY, g.sizeZ) + 1]
    IN /\ \E i \in 1..8 : corner(i) < isoLevel
       /\ \E i \in 1..8 : corner(i) >= isoLevel

\* C21: for a field with a cell of samples on both sides of the iso level,
\* generateMesh returns at least one vertex, as many normals as vertices, a
\* positive number of indices that is a multiple of 3, and only indices
\* smaller than the number of vertices.
MixedFieldGivesMesh ==
  (mcCube = <<>> /\ InRangeMixedCell(mcGeometry.scalarField, mcGeometry.options.isoLevel)) =>
    /\ Len(mcGeometry.positions) > 0
    /\ Len(mcGeometry.normals) = Len(mcGeometry.positions)
    /\ Len(mcGeometry.indices) > 0
    /\ Len(mcGeometry.indices) % 3 = 0
    /\ \A i \in 1..Len(mcGeometry.indices) :
          mcGeometry.indices[i] < Len(mcGeometry.positions)

\* witness of C21: a call on a field with such a cell has returned, once with
\* shared vertices and once with separate one-sided triangles
MixedFieldMeshed ==
  /\ mcCube = <<>>
  /\ nPass = 2
  /\ InRangeMixedCell(mcGeometry.scalarField, mcGeometry.options.isoLevel)
  /\ ~mcGeometry.options.seamless
  /\ Len(mcGeometry.indices) >= 3
  /\ Len(mcGeometry.normals) = Len(mcGeometry.indices)

\* the documented values of a freshly constructed extractor
FreshOptions ==
  [resolution |-> 32, size |-> 50, isoLevel |-> 0,
   bounds |-> [minX |-> -1, maxX |-> 1, minY |-> -1, maxY |-> 1,
               minZ |-> -1, maxZ |-> 1]]

\* C22: updateOptions(o) sets the options named in o to the values given and
\* leaves every other option as it was; a freshly constructed extractor has
\* resolution 32, size 50, isoLevel 0 and bounds [-1, 1] on each axis, except
\* for the options its constructor argument names.
OptionsMergedByName ==
  /\ \A k \in DOMAIN FreshOptions : getOptions[k] = FreshOptions[k]
  /\ [][\A o \in McOptionArgs :
          /\ UpdateOptions(o) =>
                /\ DOMAIN mcOptions' = DOMAIN mcOptions
                /\ \A k \in DOMAIN o : mcOptions'[k] = o[k]
                /\ \A k \in (DOMAIN mcOptions) \ (DOMAIN o) : mcOptions'[k] = mcOptions[k]
          /\ NewMarchingCubes(o) =>
                \A k \in DOMAIN FreshOptions :
                  mcOptions'[k] = IF k \in DOMAIN o THEN o[k] ELSE FreshOptions[k]]_vars

\* witness of C22: an extractor constructed with a size of its own had its
\* resolution, iso level and bounds updated, and kept that size
OptionsUpdated ==
  /\ getOptions.size = 100
  /\ getOptions.resolution = 48
  /\ getOptions.isoLevel = 1
  /\ getOptions.bounds.minX = -2
  /\ getOptions.bounds.minY = -1
  /\ ~getOptions.seamless

\* C23: the chunk-grid coordinate computed for the focus position designates
\* a chunk whose world bounds contain the focus position.
FocusChunkContainsFocus ==
  nFocus > 0 =>
    /\ centerChunk(currentCenter) \in DOMAIN chunks
    /\ containsPosition(chunks[centerChunk(currentCenter)], currentCenter)

\* the number of times worker w is in the idle pool
IdleCount(w) == Cardinality({i \in 1..Len(workerPool) : workerPool[i] = w})

\* C24: every worker is in the idle pool exactly once or bound to a job
\* awaiting completion, never both (idle + busy = pool size), and the keys
\* marked in progress are exactly the keys of the jobs bound to busy workers.
WorkerAccounting ==
  /\ \A w \in Workers : IdleCount(w) = (IF Busy(w) THEN 0 ELSE 1)
  /\ Len(workerPool) + Cardinality({w \in Workers : Busy(w)}) = NumWorkers
  /\ inProgressChunks = InFlightKeys

\* a queued job whose chunk is active
LiveJobQueued == \E i \in 1..Len(chunkQueue) : chunkQueue[i].key \in DOMAIN chunks

AtRest ==
  /\ chunkQueue = <<>>
  /\ inProgressChunks = {}
  /\ \A w \in Workers : ~Busy(w)
  /\ timers = 0
  /\ ~isUpdating
  /\ pendingUpdates = <<>>

\* C26: when the manager is at rest, the mesh of every active chunk that has
\* one was computed from a snapshot equal to the chunk's field, and the chunk
\* is not dirty.
MeshCurrentAtRest ==
  AtRest =>
    \A k \in DOMAIN chunks :
      chunks[k].mesh # NoMesh =>
        /\ chunks[k].mesh.geometry = chunks[k].scalarField
        /\ ~chunks[k].isDirty

\* C27: the geometry of a chunk's mesh was computed from a snapshot of that
\* chunk instance: the result of a job of an evicted instance is not applied
\* to a later instance of the same key.
MeshOfOwnInstance ==
  \A k \in DOMAIN chunks :
    chunks[k].mesh # NoMesh => chunks[k].mesh.src = chunks[k].inst

\* C28: a chunk is pending only while a flush timer is scheduled, at most one
\* flush timer is scheduled at a time (exactly when isUpdating is true), and
\* every flush, by the timer or at once in requestEdit, empties the pending
\* set.
FlushBookkeeping ==
  /\ [](/\ pendingUpdates # <<>> => isUpdating
        /\ timers <= 1
        /\ isUpdating <=> timers = 1)
  /\ [][/\ TimerFire => pendingUpdates' = <<>> /\ ~isUpdating' /\ timers' = 0
        /\ (last'.op = "edit" /\ ~isUpdating') => pendingUpdates' = <<>>
        /\ (last'.op = "edit" /\ isUpdating /\ nEdits' # nEdits) =>
              timers' = timers /\ timerLeft' = timerLeft]_vars

\* witness of C28: the timer's flush has emptied a pending set that two edits
\* had filled, the second of them while the timer was scheduled
TimerFlushedTwoEdits ==
  /\ last.op = "flush"
  /\ last.hit
  /\ nEdits >= 2
  /\ pendingUpdates = <<>>
  /\ ~isUpdating
  /\ \E k \in DOMAIN chunks : Len(chunks[k].scalarField) >= 2

\* the meshes of the active chunks that have received geometry
MeshesOfActiveChunks ==
  {chunks[k].inst : k \in {j \in DOMAIN chunks : chunks[j].mesh # NoMesh}}

\* C30: the scene group contains exactly the meshes of the active chunks that
\* have received geometry, each of them once; the mesh of an evicted chunk,
\* and after dispose every mesh, is not in the group.
GroupHoldsActiveMeshes ==
  /\ DOMAIN chunkGroup = MeshesOfActiveChunks
  /\ \A m \in DOMAIN chunkGroup : chunkGroup[m] = 1
  /\ last.op = "dispose" => chunkGroup = <<>>

\* witness of C30: after an eviction a completion has added a mesh to the
\* group, which holds the meshes of two chunks or more, while another active
\* chunk has no mesh yet
GroupAfterEviction ==
  /\ last.op = "complete"
  /\ last.hit
  /\ nFocus >= 2
  /\ nextInst - 1 > Cardinality(DOMAIN chunks)
  /\ Cardinality(DOMAIN chunkGroup) >= 2
  /\ \E k \in DOMAIN chunks : chunks[k].mesh = NoMesh

====
